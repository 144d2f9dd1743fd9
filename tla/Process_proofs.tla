-------------------------- MODULE Process_proofs --------------------------
(***************************************************************************)
(* What the event loop keeps for any child processes, intervals and        *)
(* amount of work.                                                         *)
(*                                                                         *)
(* SelectIsCurrent holds while select() waits because it holds in a weaker *)
(* form all the time: whatever is in the queue has a byte in the pipe, or  *)
(* a thread that is about to write one, except while the loop goes through *)
(* the queue; and the timers are in order, so that the first is the one to *)
(* wait for.  EventsToLiving needs what a Process is at each point of its  *)
(* life: in the table, or about to enter it, and then not reported;        *)
(* reported, and then out of the table and not deleted; deleted last.      *)
(* The first lemmas are about a queue that loses some of its elements.     *)
(***************************************************************************)
EXTENDS Process, FiniteSetTheorems, SequenceTheorems, TLAPS

---------------------------------------------------------------------------
(* A subsequence has the elements at the places that were kept, once each   *)
(* and in order.                                                           *)

\* A later place ranks higher, and ranks are places of the subsequence.
LEMMA RankGrows ==
    ASSUME NEW n \in Nat, NEW I \in SUBSET (1..n)
    PROVE  /\ IsFiniteSet(I) /\ Cardinality(I) \in Nat
           /\ \A i \in I : Rank(I, i) \in 1..Cardinality(I)
           /\ \A i, k \in I : i < k => Rank(I, i) < Rank(I, k)
<1> DEFINE Upto(i) == {k \in I : k <= i}
<1>1. IsFiniteSet(I) /\ Cardinality(I) \in Nat
  <2>1. IsFiniteSet(1..n)
    BY FS_Interval
  <2> QED  BY <2>1, FS_Subset, FS_CardinalityType
<1>2. \A i \in I : /\ IsFiniteSet(Upto(i)) /\ Cardinality(Upto(i)) \in Nat
                   /\ Cardinality(Upto(i)) <= Cardinality(I)
  <2> TAKE i \in I
  <2>1. Upto(i) \in SUBSET I
    OBVIOUS
  <2>2. IsFiniteSet(Upto(i)) /\ Cardinality(Upto(i)) <= Cardinality(I)
    BY <1>1, <2>1, FS_Subset
  <2> QED  BY <2>2, FS_CardinalityType
<1>3. \A i \in I : Cardinality(Upto(i)) # 0
  <2> TAKE i \in I
  <2>1. i \in Upto(i)
    OBVIOUS
  <2> QED  BY <1>2, <2>1, FS_EmptySet
<1>4. \A i, k \in I : i < k => Cardinality(Upto(i)) < Cardinality(Upto(k))
  <2> SUFFICES ASSUME NEW i \in I, NEW k \in I, i < k
               PROVE  Cardinality(Upto(i)) < Cardinality(Upto(k))
    OBVIOUS
  <2>1. i \in Int /\ k \in Int /\ \A m \in I : m \in Int
    OBVIOUS
  <2>2. Upto(i) \in SUBSET Upto(k)
    <3>1. \A m \in I : m <= i => m <= k
      BY <2>1
    <3> QED  BY <3>1
  <2>3. k \in Upto(k) /\ k \notin Upto(i)
    BY <2>1
  <2>4. Cardinality(Upto(i)) <= Cardinality(Upto(k)) /\ Cardinality(Upto(i)) # Cardinality(Upto(k))
    BY <1>2, <2>2, <2>3, FS_Subset
  <2> QED  BY <1>2, <2>4
<1>5. \A i \in I : Rank(I, i) \in 1..Cardinality(I)
  BY <1>1, <1>2, <1>3 DEF Rank
<1>6. \A i, k \in I : i < k => Rank(I, i) < Rank(I, k)
  BY <1>4 DEF Rank
<1> QED  BY <1>1, <1>5, <1>6

\* Each rank is that of exactly one place.
LEMMA PlacesEnumerate ==
    ASSUME NEW n \in Nat, NEW I \in SUBSET (1..n)
    PROVE  /\ \A k \in 1..Cardinality(I) : Place(I, k) \in I /\ Rank(I, Place(I, k)) = k
           /\ \A i \in I : \E k \in 1..Cardinality(I) : Place(I, k) = i
           /\ \A k, m \in 1..Cardinality(I) : k < m => Place(I, k) < Place(I, m)
<1> DEFINE c == Cardinality(I)
<1> DEFINE rank == [i \in I |-> Rank(I, i)]
<1>1. /\ IsFiniteSet(I) /\ c \in Nat
      /\ \A i \in I : Rank(I, i) \in 1..c
      /\ \A i, k \in I : i < k => Rank(I, i) < Rank(I, k)
  BY RankGrows
<1> HIDE DEF c
<1>2. \A i, k \in I : Rank(I, i) = Rank(I, k) => i = k
  <2> SUFFICES ASSUME NEW i \in I, NEW k \in I, Rank(I, i) = Rank(I, k) PROVE i = k
    OBVIOUS
  <2>1. i \in Int /\ k \in Int
    OBVIOUS
  <2>2. i < k \/ k < i \/ i = k
    BY <2>1
  <2>3. Rank(I, i) \in Int /\ Rank(I, k) \in Int
    BY <1>1
  <2> QED  BY <1>1, <2>2, <2>3
<1>3. rank \in Injection(I, 1..c)
  BY <1>1, <1>2 DEF Injection, IsInjective
<1>4. IsFiniteSet(1..c) /\ Cardinality(1..c) = c
  BY <1>1, FS_Interval
<1>5. rank \in Surjection(I, 1..c)
  <2>1. Cardinality(I) = Cardinality(1..c)
    BY <1>4 DEF c
  <2> QED  BY <1>3, <1>4, <2>1, FS_Injection
<1>6. \A k \in 1..c : \E i \in I : Rank(I, i) = k
  BY <1>5 DEF Surjection
<1>7. \A k \in 1..c : Place(I, k) \in I /\ Rank(I, Place(I, k)) = k
  BY <1>6 DEF Place
<1>8. \A i \in I : Place(I, Rank(I, i)) = i
  BY <1>1, <1>2, <1>7
<1>9. \A k, m \in 1..c : k < m => Place(I, k) < Place(I, m)
  <2> SUFFICES ASSUME NEW k \in 1..c, NEW m \in 1..c, k < m PROVE Place(I, k) < Place(I, m)
    OBVIOUS
  <2> DEFINE i == Place(I, k)
  <2> DEFINE j == Place(I, m)
  <2>1. i \in I /\ j \in I /\ Rank(I, i) = k /\ Rank(I, j) = m
    BY <1>7
  <2> HIDE DEF i, j
  <2>2. i \in Int /\ j \in Int
    BY <2>1
  <2>3. ~(j < i)
    BY <1>1, <2>1
  <2>4. i # j
    BY <1>1, <2>1
  <2>5. i < j
    BY <2>2, <2>3, <2>4
  <2> QED  BY <2>5 DEF i, j
<1> QED  BY <1>1, <1>7, <1>8, <1>9 DEF c

\* A subsequence has exactly what its sequence has at the places that were
\* kept, and in that order.
LEMMA SubsequenceKeeps ==
    ASSUME NEW S, NEW s \in Seq(S), NEW I \in SUBSET (DOMAIN s)
    PROVE  /\ Subsequence(s, I) \in Seq(S)
           /\ Len(Subsequence(s, I)) = Cardinality(I) /\ Cardinality(I) \in Nat
           /\ \A k \in 1..Cardinality(I) :
                Place(I, k) \in I /\ Subsequence(s, I)[k] = s[Place(I, k)]
           /\ \A i \in I : \E k \in 1..Cardinality(I) : Place(I, k) = i
           /\ \A k, m \in 1..Cardinality(I) : k < m => Place(I, k) < Place(I, m)
<1>1. Len(s) \in Nat /\ DOMAIN s = 1..Len(s) /\ \A i \in 1..Len(s) : s[i] \in S
  BY LenProperties, ElementOfSeq
<1>2. Cardinality(I) \in Nat
  BY <1>1, RankGrows
<1>3. /\ \A k \in 1..Cardinality(I) : Place(I, k) \in I
      /\ \A i \in I : \E k \in 1..Cardinality(I) : Place(I, k) = i
      /\ \A k, m \in 1..Cardinality(I) : k < m => Place(I, k) < Place(I, m)
  BY <1>1, PlacesEnumerate
<1>4. Subsequence(s, I) \in [1..Cardinality(I) -> S]
  BY <1>1, <1>3 DEF Subsequence
<1>5. Subsequence(s, I) \in Seq(S) /\ Len(Subsequence(s, I)) = Cardinality(I)
  BY <1>2, <1>4, SeqDef, LenProperties
<1> QED  BY <1>2, <1>3, <1>5 DEF Subsequence

---------------------------------------------------------------------------
(* A queue as a bag: what is in it, and what is in it once.                *)

Occurs(s, x) == \E k \in DOMAIN s : s[k] = x
AtMostOnce(s, x) == \A k, m \in DOMAIN s : s[k] = x /\ s[m] = x => k = m

LEMMA EmptyQueue ==
    \A x : ~Occurs(<<>>, x) /\ AtMostOnce(<<>>, x)
  BY DEF Occurs, AtMostOnce

LEMMA AppendAdds ==
    ASSUME NEW S, NEW s \in Seq(S), NEW e \in S
    PROVE  /\ Append(s, e) \in Seq(S)
           /\ \A x : Occurs(Append(s, e), x) <=> Occurs(s, x) \/ x = e
           /\ \A x : AtMostOnce(s, x) /\ (x = e => ~Occurs(s, x)) => AtMostOnce(Append(s, e), x)
<1> DEFINE t == Append(s, e)
<1>1. Len(s) \in Nat /\ DOMAIN s = 1..Len(s)
  BY LenProperties
<1>2. /\ t \in Seq(S) /\ DOMAIN t = 1..(Len(s) + 1)
      /\ \A k \in 1..Len(s) : t[k] = s[k]
      /\ t[Len(s) + 1] = e
  BY AppendProperties, LenProperties
<1> HIDE DEF t
<1>3. /\ \A k \in DOMAIN t : k \in DOMAIN s \/ k = Len(s) + 1
      /\ \A k \in DOMAIN s : k \in DOMAIN t
      /\ Len(s) + 1 \in DOMAIN t
  BY <1>1, <1>2
<1>4. \A x : Occurs(t, x) <=> Occurs(s, x) \/ x = e
  BY <1>1, <1>2, <1>3 DEF Occurs
<1>5. ASSUME NEW x, AtMostOnce(s, x), x = e => ~Occurs(s, x) PROVE AtMostOnce(t, x)
  BY <1>1, <1>2, <1>3, <1>5 DEF Occurs, AtMostOnce
<1> QED  BY <1>2, <1>4, <1>5 DEF t

LEMMA TailDrops ==
    ASSUME NEW S, NEW s \in Seq(S), s # <<>>
    PROVE  /\ Tail(s) \in Seq(S) /\ Head(s) \in S /\ Occurs(s, Head(s))
           /\ \A x : Occurs(Tail(s), x) => Occurs(s, x)
           /\ \A x : Occurs(s, x) => x = Head(s) \/ Occurs(Tail(s), x)
           /\ \A x : AtMostOnce(s, x) => AtMostOnce(Tail(s), x)
           /\ AtMostOnce(s, Head(s)) => ~Occurs(Tail(s), Head(s))
<1> DEFINE t == Tail(s)
<1>1. Len(s) \in Nat \ {0} /\ DOMAIN s = 1..Len(s)
  BY LenProperties, EmptySeq
<1>2. /\ t \in Seq(S) /\ DOMAIN t = 1..(Len(s) - 1)
      /\ \A k \in 1..(Len(s) - 1) : t[k] = s[k + 1]
  BY <1>1, HeadTailProperties, LenProperties
<1>3. Head(s) = s[1] /\ Head(s) \in S /\ 1 \in DOMAIN s
  BY <1>1, HeadTailProperties
<1> HIDE DEF t
<1>4. \A k \in DOMAIN t : k + 1 \in DOMAIN s /\ k + 1 # 1 /\ s[k + 1] = t[k]
  BY <1>1, <1>2
<1>5. \A k \in DOMAIN s : k = 1 \/ (k - 1 \in DOMAIN t /\ t[k - 1] = s[k])
  BY <1>1, <1>2
<1>6. /\ \A x : Occurs(t, x) => Occurs(s, x)
      /\ \A x : Occurs(s, x) => x = Head(s) \/ Occurs(t, x)
  BY <1>3, <1>4, <1>5 DEF Occurs
<1>7. \A x : AtMostOnce(s, x) => AtMostOnce(t, x)
  <2> SUFFICES ASSUME NEW x, AtMostOnce(s, x), NEW k \in DOMAIN t, NEW m \in DOMAIN t,
                      t[k] = x, t[m] = x
               PROVE  k = m
    BY DEF AtMostOnce
  <2>1. k + 1 = m + 1
    BY <1>4 DEF AtMostOnce
  <2> QED  BY <1>1, <1>2, <2>1
<1>8. AtMostOnce(s, Head(s)) => ~Occurs(t, Head(s))
  BY <1>3, <1>4 DEF Occurs, AtMostOnce
<1> QED  BY <1>2, <1>3, <1>6, <1>7, <1>8 DEF Occurs, t

LEMMA SubsequenceHas ==
    ASSUME NEW S, NEW s \in Seq(S), NEW I \in SUBSET (DOMAIN s)
    PROVE  /\ Subsequence(s, I) \in Seq(S)
           /\ \A x : Occurs(Subsequence(s, I), x) <=> \E i \in I : s[i] = x
           /\ \A x : AtMostOnce(s, x) => AtMostOnce(Subsequence(s, I), x)
<1> DEFINE t == Subsequence(s, I)
<1>1. /\ t \in Seq(S) /\ Len(t) = Cardinality(I) /\ Cardinality(I) \in Nat
      /\ \A k \in 1..Cardinality(I) : Place(I, k) \in I /\ t[k] = s[Place(I, k)]
      /\ \A i \in I : \E k \in 1..Cardinality(I) : Place(I, k) = i
      /\ \A k, m \in 1..Cardinality(I) : k < m => Place(I, k) < Place(I, m)
  BY SubsequenceKeeps
<1> HIDE DEF t
<1>2. DOMAIN t = 1..Cardinality(I)
  BY <1>1, LenProperties
<1>3. \A x : Occurs(t, x) <=> \E i \in I : s[i] = x
  BY <1>1, <1>2 DEF Occurs
<1>4. ASSUME NEW x, AtMostOnce(s, x), NEW k \in DOMAIN t, NEW m \in DOMAIN t, t[k] = x, t[m] = x
      PROVE  k = m
  <2>1. Place(I, k) = Place(I, m) /\ Place(I, k) \in Int
    <3>1. Place(I, k) \in DOMAIN s /\ Place(I, m) \in DOMAIN s
      BY <1>1, <1>2, <1>4
    <3>2. s[Place(I, k)] = x /\ s[Place(I, m)] = x
      BY <1>1, <1>2, <1>4
    <3> QED  BY <1>4, <3>1, <3>2, LenProperties DEF AtMostOnce
  <2>2. ~(k < m) /\ ~(m < k) /\ k \in Int /\ m \in Int
    BY <1>1, <1>2, <1>4, <2>1
  <2> QED  BY <2>2
<1>5. \A x : AtMostOnce(s, x) => AtMostOnce(t, x)
  BY <1>4 DEF AtMostOnce
<1> QED  BY <1>1, <1>3, <1>5 DEF t

\* What order the elements are in by some key, their subsequence keeps.
LEMMA SubsequenceOrder ==
    ASSUME NEW S, NEW s \in Seq(S), NEW I \in SUBSET (DOMAIN s),
           NEW k \in DOMAIN Subsequence(s, I), NEW m \in DOMAIN Subsequence(s, I), k <= m
    PROVE  \E i, j \in I : i <= j /\ Subsequence(s, I)[k] = s[i] /\ Subsequence(s, I)[m] = s[j]
<1> DEFINE t == Subsequence(s, I)
<1>1. /\ t \in Seq(S) /\ Len(t) = Cardinality(I) /\ Cardinality(I) \in Nat
      /\ \A n \in 1..Cardinality(I) : Place(I, n) \in I /\ t[n] = s[Place(I, n)]
      /\ \A n, o \in 1..Cardinality(I) : n < o => Place(I, n) < Place(I, o)
  BY SubsequenceKeeps
<1>2. k \in 1..Cardinality(I) /\ m \in 1..Cardinality(I)
  BY <1>1, LenProperties
<1>3. Place(I, k) <= Place(I, m)
  <2>1. Place(I, k) \in DOMAIN s /\ Place(I, m) \in DOMAIN s
    BY <1>1, <1>2
  <2>2. Place(I, k) \in Int /\ Place(I, m) \in Int
    BY <2>1, LenProperties
  <2>3. k = m \/ k < m
    BY <1>2
  <2> QED  BY <1>1, <1>2, <2>2, <2>3
<1> QED  BY <1>1, <1>2, <1>3

\* One queue after another.
LEMMA ConcatAdds ==
    ASSUME NEW S, NEW s \in Seq(S), NEW t \in Seq(S)
    PROVE  /\ s \o t \in Seq(S)
           /\ \A x : Occurs(s \o t, x) <=> Occurs(s, x) \/ Occurs(t, x)
           /\ \A x : /\ AtMostOnce(s, x) /\ AtMostOnce(t, x)
                     /\ ~(Occurs(s, x) /\ Occurs(t, x))
                    => AtMostOnce(s \o t, x)
<1> DEFINE u == s \o t
<1>1. /\ u \in Seq(S) /\ Len(u) = Len(s) + Len(t)
      /\ \A i \in 1..(Len(s) + Len(t)) : u[i] = IF i <= Len(s) THEN s[i] ELSE t[i - Len(s)]
  BY ConcatProperties
<1>2. /\ Len(s) \in Nat /\ Len(t) \in Nat
      /\ DOMAIN s = 1..Len(s) /\ DOMAIN t = 1..Len(t) /\ DOMAIN u = 1..(Len(s) + Len(t))
  BY <1>1, LenProperties
<1> HIDE DEF u
<1>3. \A i \in DOMAIN s : i \in DOMAIN u /\ u[i] = s[i]
  BY <1>1, <1>2
<1>4. \A i \in DOMAIN t : Len(s) + i \in DOMAIN u /\ u[Len(s) + i] = t[i]
  <2> TAKE i \in DOMAIN t
  <2>1. i \in Int /\ 1 <= i /\ i <= Len(t)
    BY <1>2
  <2>2. Len(s) + i \in 1..(Len(s) + Len(t)) /\ ~(Len(s) + i <= Len(s)) /\ (Len(s) + i) - Len(s) = i
    BY <1>2, <2>1
  <2> QED  BY <1>1, <1>2, <2>2
<1>5. \A i \in DOMAIN u : \/ i \in DOMAIN s /\ u[i] = s[i]
                          \/ i - Len(s) \in DOMAIN t /\ u[i] = t[i - Len(s)]
  <2> TAKE i \in DOMAIN u
  <2>1. i \in Int /\ 1 <= i /\ i <= Len(s) + Len(t)
    BY <1>2
  <2>2. CASE i <= Len(s)
    BY <1>1, <1>2, <2>1, <2>2
  <2>3. CASE ~(i <= Len(s))
    <3>1. i - Len(s) \in 1..Len(t) /\ u[i] = t[i - Len(s)]
      BY <1>1, <1>2, <2>1, <2>3
    <3> QED  BY <1>2, <3>1
  <2> QED  BY <2>2, <2>3
<1>6. \A x : Occurs(u, x) <=> Occurs(s, x) \/ Occurs(t, x)
  BY <1>3, <1>4, <1>5 DEF Occurs
<1>7. ASSUME NEW x, AtMostOnce(s, x), AtMostOnce(t, x), ~(Occurs(s, x) /\ Occurs(t, x)),
             NEW i \in DOMAIN u, NEW j \in DOMAIN u, u[i] = x, u[j] = x
      PROVE  i = j
  <2>1. CASE Occurs(s, x)
    BY <1>5, <1>7, <2>1 DEF Occurs, AtMostOnce
  <2>2. CASE ~Occurs(s, x)
    <3>1. i - Len(s) \in DOMAIN t /\ j - Len(s) \in DOMAIN t
          /\ t[i - Len(s)] = x /\ t[j - Len(s)] = x
      BY <1>5, <1>7, <2>2 DEF Occurs
    <3>2. i - Len(s) = j - Len(s)
      BY <1>7, <3>1 DEF AtMostOnce
    <3> QED  BY <1>2, <3>2
  <2> QED  BY <2>1, <2>2
<1>8. \A x : /\ AtMostOnce(s, x) /\ AtMostOnce(t, x) /\ ~(Occurs(s, x) /\ Occurs(t, x))
            => AtMostOnce(u, x)
  BY <1>7 DEF AtMostOnce
<1> QED  BY <1>1, <1>6, <1>8 DEF u

---------------------------------------------------------------------------

Posted(e) == Occurs(mEvents, e)

Receivers == {Project, Connection} \cup Processes
Timers == [handle : Nat, when : Nat \ {0}]
Posts == [to : Receivers, what : {"message", "delete", "finished"}]

LoopType ==
    /\ now \in Nat \ {0} /\ at \in {"arm", "select", "timers", "events", "fds"}
    /\ armed \in [fds : SUBSET Processes, deadline : Nat]
    /\ piped \in BOOLEAN /\ due \in Seq(Timers) /\ todo \subseteq Processes
    /\ mTimerData \in Seq(Timers) /\ mNextTimerHandle \in Nat
    /\ mTimers \subseteq Nat /\ starting \in Nat
    /\ mFdData \subseteq Processes /\ mEvents \in Seq(Posts)
    /\ mEventPipe \subseteq {"wake", "e"} /\ owed \subseteq {"pool", "reaper"}
    /\ work \in Nat /\ alive \subseteq Receivers

Pids == {<<p>> : p \in Processes}
ProcessType ==
    /\ HAVE_SIGINFO \in BOOLEAN /\ mPid \subseteq Processes /\ sProcesses \subseteq Processes
    /\ inStart \in {<<>>} \cup (Processes \X {"forked", "added"})
    /\ child \in [Processes -> {"none", "running", "zombie", "reaped"}]
    /\ wrote \in [Processes -> Nat] /\ unread \in [Processes -> Nat]
    /\ sigchld \in {<<>>} \cup Pids /\ sProcessPipe \in Seq({<<>>} \cup Pids)
    /\ waiting \in [step : {"read", "poll"}, pid : {<<>>}] \cup [step : {"wait", "lookup"}, pid : Pids]
    /\ output \in [Processes -> Nat] /\ finished \in [Processes -> Seq(Nat)]
    /\ unheard \subseteq Processes

TypeOK == LoopType /\ ProcessType

\* A posted event is not overlooked, except by the loop while it serves them.
EventsSeen == at # "events" => mEvents = <<>> \/ "e" \in mEventPipe \/ owed # {}

InOrder(timers) ==
    \A j, k \in DOMAIN timers : j <= k => timers[j].when <= timers[k].when

LoopInv == EventsSeen /\ InOrder(mTimerData) /\ SelectIsCurrent

\* A Process that is yet to be reported.
InTable(p) == p \in sProcesses \/ inStart = <<p, "forked">>
Over(p) == Posted(Event(p, "delete")) \/ p \notin alive

\* The life of a Process.
LivesInOrder ==
    \A p \in Processes :
        /\ Over(p) => ~InTable(p) /\ child[p] # "none"
        /\ Posted(Event(p, "finished")) => ~InTable(p)
        /\ Posted(Event(p, "finished")) \/ InTable(p) => p \in mPid
        /\ p \in mPid => child[p] # "none"
        /\ p \in sProcesses => inStart # <<p, "forked">>
        /\ AtMostOnce(mEvents, Event(p, "finished"))

TableInv == EventsToLiving /\ LivesInOrder /\ IsFiniteSet(sProcesses)

IInv == TypeOK /\ LoopInv /\ TableInv

---------------------------------------------------------------------------
(* The queue and the timers.                                               *)

LEMMA EventsDiffer ==
    /\ \A to, what : Event(to, what).to = to /\ Event(to, what).what = what
    /\ \A to \in Receivers : \A what \in {"message", "delete", "finished"} :
         Event(to, what) \in Posts
  BY DEF Event, Posts

LEMMA LivingByPosts ==
    EventsToLiving <=> \A e : Posted(e) => e.to \in alive
  BY DEF EventsToLiving, Posted, Occurs

\* addTimer() keeps the timers in order.
LEMMA InsertedKeepsOrder ==
    ASSUME mTimerData \in Seq(Timers), InOrder(mTimerData), NEW t \in Timers
    PROVE  Inserted(t) \in Seq(Timers) /\ InOrder(Inserted(t))
<1> DEFINE B == {k \in DOMAIN mTimerData : mTimerData[k].when < t.when}
           A == DOMAIN mTimerData \ B
           s1 == Subsequence(mTimerData, B)
           s2 == Subsequence(mTimerData, A)
<1>1. B \in SUBSET (DOMAIN mTimerData) /\ A \in SUBSET (DOMAIN mTimerData)
  OBVIOUS
<1>2. \A k \in DOMAIN mTimerData : mTimerData[k] \in Timers
  BY ElementOfSeq, LenProperties
<1>3. \A x \in Timers : x.when \in Nat
  BY DEF Timers
<1>4. /\ \A k \in B : mTimerData[k].when < t.when
      /\ \A k \in A : t.when <= mTimerData[k].when
  BY <1>2, <1>3
<1> HIDE DEF A, B
<1>5. s1 \in Seq(Timers) /\ s2 \in Seq(Timers)
  BY <1>1, SubsequenceHas
<1>6. /\ \A k \in DOMAIN s1 : s1[k] \in Timers /\ s1[k].when <= t.when
      /\ \A k \in DOMAIN s2 : s2[k] \in Timers /\ t.when <= s2[k].when
  <2>1. \A k \in DOMAIN s1 : \E i \in B : s1[k] = mTimerData[i]
    BY <1>1, SubsequenceHas DEF Occurs
  <2>2. \A k \in DOMAIN s2 : \E i \in A : s2[k] = mTimerData[i]
    <3>1. \A x : Occurs(s2, x) => \E i \in A : mTimerData[i] = x
      BY <1>1, SubsequenceHas
    <3> QED  BY <3>1 DEF Occurs
  <2> QED  BY <1>1, <1>2, <1>3, <1>4, <2>1, <2>2
<1>7. InOrder(s1) /\ InOrder(s2)
  <2>1. ASSUME NEW j \in DOMAIN s1, NEW k \in DOMAIN s1, j <= k
        PROVE  s1[j].when <= s1[k].when
    <3>1. \E i, m \in B : i <= m /\ s1[j] = mTimerData[i] /\ s1[k] = mTimerData[m]
      BY <1>1, <2>1, SubsequenceOrder
    <3> QED  BY <1>1, <3>1 DEF InOrder
  <2>2. ASSUME NEW j \in DOMAIN s2, NEW k \in DOMAIN s2, j <= k
        PROVE  s2[j].when <= s2[k].when
    <3>1. \E i, m \in A : i <= m /\ s2[j] = mTimerData[i] /\ s2[k] = mTimerData[m]
      BY <1>1, <2>2, SubsequenceOrder
    <3> QED  BY <1>1, <3>1 DEF InOrder
  <2> QED  BY <2>1, <2>2 DEF InOrder
<1>8. Inserted(t) = s1 \o <<t>> \o s2
  BY DEF Inserted, A, B
<1> HIDE DEF s1, s2
<1> DEFINE n == Len(s1)
           u == s1 \o <<t>>
           v == u \o s2
<1>9. <<t>> \in Seq(Timers) /\ Len(<<t>>) = 1 /\ <<t>>[1] = t
  OBVIOUS
<1>10. /\ u \in Seq(Timers) /\ Len(u) = n + 1 /\ n \in Nat
       /\ \A i \in 1..(n + 1) : u[i] = IF i <= n THEN s1[i] ELSE <<t>>[i - n]
  BY <1>5, <1>9, ConcatProperties, LenProperties
<1>11. u[n + 1] = t /\ \A i \in 1..n : u[i] = s1[i]
  BY <1>9, <1>10
<1>12. /\ v \in Seq(Timers) /\ Len(v) = n + 1 + Len(s2) /\ Len(s2) \in Nat
       /\ \A i \in 1..(n + 1 + Len(s2)) : v[i] = IF i <= n + 1 THEN u[i] ELSE s2[i - (n + 1)]
  BY <1>5, <1>10, ConcatProperties, LenProperties
<1> HIDE DEF u
<1>13. DOMAIN s1 = 1..n /\ DOMAIN s2 = 1..Len(s2) /\ DOMAIN v = 1..(n + 1 + Len(s2))
  BY <1>5, <1>12, LenProperties
<1> HIDE DEF v, n
<1>14. \A i \in DOMAIN v :
         \/ i \in DOMAIN s1 /\ v[i] = s1[i]
         \/ i = n + 1 /\ v[i] = t
         \/ i - (n + 1) \in DOMAIN s2 /\ v[i] = s2[i - (n + 1)] /\ i > n + 1
  <2> TAKE i \in DOMAIN v
  <2>1. i \in Int /\ 1 <= i /\ i <= n + 1 + Len(s2)
    BY <1>13
  <2>2. CASE i <= n
    BY <1>10, <1>11, <1>12, <1>13, <2>1, <2>2
  <2>3. CASE i = n + 1
    BY <1>10, <1>11, <1>12, <2>1, <2>3
  <2>4. CASE i > n + 1
    BY <1>10, <1>12, <1>13, <2>1, <2>4
  <2> QED  BY <1>10, <2>1, <2>2, <2>3, <2>4
<1>15. ASSUME NEW j \in DOMAIN v, NEW k \in DOMAIN v, j <= k
       PROVE  v[j].when <= v[k].when
  <2>1. t.when \in Nat /\ j \in Int /\ k \in Int /\ n \in Nat
    BY <1>3, <1>10, <1>13
  <2>2. CASE j \in DOMAIN s1 /\ v[j] = s1[j]
    <3>1. s1[j].when \in Nat /\ s1[j].when <= t.when
      BY <1>3, <1>6, <2>2
    <3>2. CASE k \in DOMAIN s1 /\ v[k] = s1[k]
      BY <1>7, <1>15, <2>2, <3>2 DEF InOrder
    <3>3. CASE k = n + 1 /\ v[k] = t
      BY <2>2, <3>1, <3>3
    <3>4. CASE k - (n + 1) \in DOMAIN s2 /\ v[k] = s2[k - (n + 1)]
      <4>1. v[k].when \in Nat /\ t.when <= v[k].when
        BY <1>3, <1>6, <3>4
      <4> QED  BY <2>1, <2>2, <3>1, <4>1
    <3> QED  BY <1>14, <3>2, <3>3, <3>4
  <2>3. CASE j = n + 1 /\ v[j] = t
    <3>1. CASE k = n + 1 /\ v[k] = t
      BY <2>1, <2>3, <3>1
    <3>2. CASE k - (n + 1) \in DOMAIN s2 /\ v[k] = s2[k - (n + 1)]
      BY <1>6, <2>3, <3>2
    <3> QED  BY <1>13, <1>14, <1>15, <2>1, <2>3, <3>1, <3>2
  <2>4. CASE j - (n + 1) \in DOMAIN s2 /\ v[j] = s2[j - (n + 1)] /\ j > n + 1
    <3>1. k > n + 1
      BY <1>15, <2>1, <2>4
    <3>2. k - (n + 1) \in DOMAIN s2 /\ v[k] = s2[k - (n + 1)]
      BY <1>13, <1>14, <2>1, <3>1
    <3>3. j - (n + 1) <= k - (n + 1)
      BY <1>15, <2>1
    <3> QED  BY <1>7, <2>4, <3>2, <3>3 DEF InOrder
  <2> QED  BY <1>14, <2>2, <2>3, <2>4
<1>16. InOrder(v)
  BY <1>15 DEF InOrder
<1> QED  BY <1>8, <1>12, <1>16 DEF u, v

LEMMA WithoutTimerKeepsOrder ==
    ASSUME mTimerData \in Seq(Timers), InOrder(mTimerData), NEW h
    PROVE  WithoutTimer(h) \in Seq(Timers) /\ InOrder(WithoutTimer(h))
<1> DEFINE I == {k \in DOMAIN mTimerData : mTimerData[k].handle # h}
           s == Subsequence(mTimerData, I)
<1>1. I \in SUBSET (DOMAIN mTimerData) /\ WithoutTimer(h) = s
  BY DEF WithoutTimer
<1> HIDE DEF I
<1>2. s \in Seq(Timers)
  BY <1>1, SubsequenceHas
<1>3. ASSUME NEW j \in DOMAIN s, NEW k \in DOMAIN s, j <= k
      PROVE  s[j].when <= s[k].when
  <2>1. \E i, m \in I : i <= m /\ s[j] = mTimerData[i] /\ s[k] = mTimerData[m]
    BY <1>1, <1>3, SubsequenceOrder
  <2> QED  BY <1>1, <2>1 DEF InOrder
<1> QED  BY <1>1, <1>2, <1>3 DEF InOrder

---------------------------------------------------------------------------
(* What most steps leave alone.                                            *)

LEMMA LoopTypeStays == LoopType /\ UNCHANGED eventLoopVars => LoopType'
  BY DEF LoopType, eventLoopVars, loopVars, timerVars, eventVars

LEMMA ProcessTypeStays == ProcessType /\ UNCHANGED processVars => ProcessType'
  BY DEF ProcessType, processVars, objectVars, childVars, threadVars

\* Others may give the loop more to wait for if they say so.
LEMMA LoopIsTold ==
    ASSUME LoopInv, UNCHANGED <<at, armed, mTimerData>>, mEventPipe \in SUBSET mEventPipe',
           mFdData' \in SUBSET mFdData \/ mEventPipe' # {},
           "e" \in mEventPipe' \/ owed' # {} \/ UNCHANGED <<mEvents, owed>>
    PROVE  LoopInv'
<1>1. EventsSeen'
  BY DEF LoopInv, EventsSeen
<1>2. SelectIsCurrent'
  BY <1>1 DEF LoopInv, SelectIsCurrent, EventsSeen
<1> QED  BY <1>1, <1>2 DEF LoopInv

\* While the loop serves its events only the order of the timers matters.
LEMMA LoopIsServing ==
    ASSUME LoopInv, at' = "events", UNCHANGED mTimerData
    PROVE  LoopInv'
  BY DEF LoopInv, EventsSeen, SelectIsCurrent, InOrder

\* No Process is reported, deleted or entered.
LEMMA TableStays ==
    ASSUME TableInv, UNCHANGED <<alive, mPid>>,
           \A x : Posted(x)' => Posted(x),
           \A x : AtMostOnce(mEvents, x) => AtMostOnce(mEvents', x),
           sProcesses' \in SUBSET sProcesses,
           \A p \in Processes : inStart' = <<p, "forked">> => inStart = <<p, "forked">>,
           \A p \in Processes : child'[p] = "none" => child[p] = "none"
    PROVE  TableInv'
<1>1. EventsToLiving'
  BY LivingByPosts DEF TableInv, EventsToLiving, Posted, Occurs
<1>2. LivesInOrder'
  BY DEF TableInv, LivesInOrder, InTable, Over
<1>3. IsFiniteSet(sProcesses')
  BY FS_Subset DEF TableInv
<1> QED  BY <1>1, <1>2, <1>3 DEF TableInv

\* An event that is no end of a Process, to one that lives.
LEMMA MessageFits ==
    ASSUME TableInv, UNCHANGED <<alive, mPid, sProcesses, inStart, child>>,
           NEW e, e.to \in alive \ Processes,
           \A x : Posted(x)' => Posted(x) \/ x = e,
           \A x : AtMostOnce(mEvents, x) /\ x # e => AtMostOnce(mEvents', x)
    PROVE  TableInv'
<1>1. \A p \in Processes, what \in {"finished", "delete"} : Event(p, what) # e
  BY EventsDiffer
<1>2. EventsToLiving'
  <2> SUFFICES ASSUME NEW k \in DOMAIN mEvents' PROVE mEvents'[k].to \in alive
    BY DEF EventsToLiving
  <2>1. Posted(mEvents'[k]) \/ mEvents'[k] = e
    BY DEF Posted, Occurs
  <2> QED  BY <2>1, LivingByPosts DEF TableInv
<1>3. LivesInOrder'
  BY <1>1 DEF TableInv, LivesInOrder, InTable, Over
<1> QED  BY <1>2, <1>3 DEF TableInv

LEMMA InitIInv == Init => IInv
<1> SUFFICES ASSUME Init PROVE IInv
  OBVIOUS
<1>1. \A x : ~Posted(x) /\ AtMostOnce(mEvents, x)
  BY EmptyQueue DEF Init, EventLoopInit, Posted
<1>2. LoopType
  <2>1. due \in Seq(Timers) /\ mTimerData \in Seq(Timers) /\ mEvents \in Seq(Posts)
    BY EmptySeq DEF Init, EventLoopInit
  <2>2. armed \in [fds : SUBSET Processes, deadline : Nat]
    BY DEF Init, EventLoopInit, Disarmed
  <2>3. alive \subseteq Receivers
    BY DEF Init, EventLoopInit, Receivers
  <2>4. /\ now = 1 /\ at = "arm" /\ piped = FALSE /\ todo = {} /\ mNextTimerHandle = 0
        /\ mTimers = {} /\ starting = 0 /\ mFdData = {} /\ mEventPipe = {} /\ owed = {} /\ work = 0
    BY DEF Init, EventLoopInit
  <2>5. now \in Nat \ {0} /\ at \in {"arm", "select", "timers", "events", "fds"}
    BY <2>4
  <2> QED  BY <2>1, <2>2, <2>3, <2>4, <2>5 DEF LoopType
<1>3. ProcessType
  <2>1. sProcessPipe \in Seq({<<>>} \cup Pids) /\ <<>> \in Seq(Nat)
    BY EmptySeq DEF Init
  <2> QED  BY <2>1 DEF Init, ProcessType, Reading
<1>4. LoopInv
  BY DEF Init, EventLoopInit, LoopInv, EventsSeen, InOrder, SelectIsCurrent
<1>5. TableInv
  <2>1. \A p \in Processes : p \in alive /\ ~InTable(p) /\ p \notin mPid
    BY DEF Init, EventLoopInit, InTable
  <2>2. EventsToLiving
    BY <1>1, LivingByPosts
  <2>3. IsFiniteSet(sProcesses)
    BY FS_EmptySet DEF Init
  <2> QED  BY <1>1, <2>1, <2>2, <2>3 DEF Init, TableInv, LivesInOrder, Over
<1> QED  BY <1>2, <1>3, <1>4, <1>5 DEF IInv, TypeOK

---------------------------------------------------------------------------
(* The loop.                                                               *)

\* The steps of a round that leave the queue of events alone.
LEMMA RoundKeepsIInv ==
    ASSUME IInv, UNCHANGED processVars,
           \/ Arm \/ Wake(Readable) \/ FireTimer \/ ReadByte \/ PipeDone \/ EventsDone \/ RoundEnd
    PROVE  IInv'
<1>1. /\ mTimerData \in Seq(Timers) /\ due \in Seq(Timers) /\ armed.deadline \in Nat
      /\ armed.fds \subseteq Processes
  BY DEF IInv, TypeOK, LoopType
<1>2. UNCHANGED <<now, mNextTimerHandle, starting, mFdData, mEvents, owed, work, alive>>
  BY DEF Arm, Wake, FireTimer, ReadByte, PipeDone, EventsDone, RoundEnd, timerEventCallBack,
         timerVars, eventVars
<1>3. TableInv'
  <2>1. UNCHANGED <<alive, mPid, mEvents, sProcesses, inStart, child>>
    BY <1>2 DEF processVars, objectVars, childVars
  <2> QED  BY <2>1, TableStays DEF IInv, Posted
<1>4. CASE Arm
  <2>1. /\ UNCHANGED <<piped, due, todo, mTimerData, mTimers, mEventPipe>> /\ at' = "select"
        /\ at = "arm"
        /\ armed' = [fds |-> mFdData,
                     deadline |-> IF mTimerData = <<>> THEN 0 ELSE mTimerData[1].when]
    BY <1>4 DEF Arm, timerVars, eventVars
  <2>2. mTimerData # <<>> => 1 \in DOMAIN mTimerData /\ mTimerData[1].when \in Nat \ {0}
    <3>1. mTimerData # <<>> => 1 \in 1..Len(mTimerData)
      BY <1>1, EmptySeq, LenProperties
    <3>2. \A k \in 1..Len(mTimerData) : mTimerData[k] \in Timers
      BY <1>1, ElementOfSeq
    <3> QED  BY <1>1, <3>1, <3>2, LenProperties DEF Timers
  <2>3. LoopType'
    BY <1>2, <2>1, <2>2 DEF IInv, TypeOK, LoopType
  <2>4. LoopInv'
    <3>1. EventsSeen' /\ InOrder(mTimerData)'
      BY <1>2, <2>1 DEF IInv, LoopInv, EventsSeen, InOrder
    <3>2. armed'.fds = mFdData /\ (mTimerData # <<>> => armed'.deadline = mTimerData[1].when)
      BY <2>1
    <3>3. \A k \in DOMAIN mTimerData : 1 <= k
      BY <1>1, LenProperties
    <3>4. mTimerData # <<>> => /\ armed'.deadline # 0
                              /\ \A k \in DOMAIN mTimerData : armed'.deadline <= mTimerData[k].when
      BY <2>2, <3>2, <3>3 DEF IInv, LoopInv, InOrder
    <3>5. SelectIsCurrent'
      BY <1>2, <2>1, <3>1, <3>2, <3>4 DEF SelectIsCurrent, EventsSeen
    <3> QED  BY <3>1, <3>5 DEF LoopInv
  <2> QED  BY <1>3, <2>3, <2>4, ProcessTypeStays DEF IInv, TypeOK
<1>5. CASE Wake(Readable)
  <2>1. /\ UNCHANGED <<mTimerData, mTimers, mEventPipe>> /\ at = "select" /\ at' = "timers"
        /\ armed' = Disarmed /\ piped' = (mEventPipe # {}) /\ todo' = armed.fds \cap Readable
        /\ due' = IF armed.deadline = 0 THEN <<>>
                  ELSE Subsequence(mTimerData, {k \in DOMAIN mTimerData : Due(mTimerData[k])})
    BY <1>5 DEF Wake, timerVars, eventVars
  <2>2. due' \in Seq(Timers)
    <3> DEFINE I == {k \in DOMAIN mTimerData : Due(mTimerData[k])}
    <3>1. I \in SUBSET (DOMAIN mTimerData)
      OBVIOUS
    <3> HIDE DEF I
    <3>2. Subsequence(mTimerData, I) \in Seq(Timers) /\ <<>> \in Seq(Timers)
      BY <1>1, <3>1, SubsequenceHas, EmptySeq
    <3> QED  BY <2>1, <3>2 DEF I
  <2>3. LoopType'
    BY <1>1, <1>2, <2>1, <2>2 DEF IInv, TypeOK, LoopType, Disarmed
  <2>4. LoopInv'
    BY <1>2, <2>1 DEF IInv, LoopInv, EventsSeen, InOrder, SelectIsCurrent
  <2> QED  BY <1>3, <2>3, <2>4, ProcessTypeStays DEF IInv, TypeOK
<1>6. CASE FireTimer
  <2>1. /\ UNCHANGED <<at, armed, piped, todo, mEventPipe>> /\ at = "timers" /\ due # <<>>
        /\ mTimers' = mTimers \ {Head(due).handle} /\ due' = Tail(due)
        /\ mTimerData' = WithoutTimer(Head(due).handle)
    BY <1>6 DEF FireTimer, timerEventCallBack, eventVars
  <2>2. mTimerData' \in Seq(Timers) /\ InOrder(mTimerData')
    BY <1>1, <2>1, WithoutTimerKeepsOrder DEF IInv, LoopInv
  <2>3. LoopType'
    <3>1. due' \in Seq(Timers)
      BY <1>1, <2>1, TailDrops
    <3> QED  BY <1>2, <2>1, <2>2, <3>1 DEF IInv, TypeOK, LoopType
  <2>4. LoopInv'
    BY <1>2, <2>1, <2>2 DEF IInv, LoopInv, EventsSeen, InOrder, SelectIsCurrent
  <2> QED  BY <1>3, <2>3, <2>4, ProcessTypeStays DEF IInv, TypeOK
<1>7. CASE ReadByte
  <2>1. PICK byte \in mEventPipe :
          /\ mEventPipe' = mEventPipe \ {byte} /\ at' = IF byte = "e" THEN "events" ELSE at
          /\ at = "timers" /\ UNCHANGED <<armed, piped, due, todo, mTimerData, mTimers>>
    BY <1>7 DEF ReadByte, timerVars
  <2>2. LoopType'
    BY <1>2, <2>1 DEF IInv, TypeOK, LoopType
  <2>3. LoopInv'
    BY <1>2, <2>1 DEF IInv, LoopInv, EventsSeen, InOrder, SelectIsCurrent
  <2> QED  BY <1>3, <2>2, <2>3, ProcessTypeStays DEF IInv, TypeOK
<1>8. CASE PipeDone \/ EventsDone \/ RoundEnd
  <2>1. /\ UNCHANGED <<armed, due, mTimerData, mTimers, mEventPipe>>
        /\ piped' \in {piped, FALSE} /\ todo' \in {todo, {}}
        /\ at' \in {"fds", "timers", "arm"}
        /\ at = "events" => mEvents = <<>>
    BY <1>8 DEF PipeDone, EventsDone, RoundEnd, timerVars, eventVars
  <2>2. LoopType'
    BY <1>2, <2>1 DEF IInv, TypeOK, LoopType
  <2>3. LoopInv'
    BY <1>2, <2>1 DEF IInv, LoopInv, EventsSeen, InOrder, SelectIsCurrent
  <2> QED  BY <1>3, <2>2, <2>3, ProcessTypeStays DEF IInv, TypeOK
<1> QED  BY <1>4, <1>5, <1>6, <1>7, <1>8

\* sendPostedEvents() delivers a message.
LEMMA DeliverMessageKeepsIInv ==
    ASSUME IInv, UNCHANGED processVars, DeliverMessage
    PROVE  IInv'
<1>1. /\ at = "events" /\ mEvents # <<>> /\ mEvents' = Tail(mEvents)
      /\ UNCHANGED <<now, at, armed, piped, due, todo, mTimerData, mNextTimerHandle, mTimers,
                     starting, mFdData, mEventPipe, owed, work, alive>>
      /\ UNCHANGED <<mPid, sProcesses, inStart, child>>
  BY DEF DeliverMessage, Sending, loopVars, timerVars, processVars, objectVars, childVars
<1>2. /\ mEvents' \in Seq(Posts)
      /\ \A x : Posted(x)' => Posted(x)
      /\ \A x : AtMostOnce(mEvents, x) => AtMostOnce(mEvents', x)
  BY <1>1, TailDrops DEF IInv, TypeOK, LoopType, Posted
<1>3. LoopType'
  BY <1>1, <1>2 DEF IInv, TypeOK, LoopType
<1>4. LoopInv'
  BY <1>1, LoopIsServing DEF IInv
<1>5. TableInv'
  BY <1>1, <1>2, TableStays DEF IInv
<1> QED  BY <1>3, <1>4, <1>5, ProcessTypeStays DEF IInv, TypeOK

\* sendPostedEvents() deletes a receiver, and its other events go with it.
LEMMA DeleteReceiverKeepsIInv ==
    ASSUME IInv, UNCHANGED processVars, NEW r \in Receivers, DeleteReceiver(r)
    PROVE  IInv'
<1> DEFINE s == Tail(mEvents)
           I == {k \in DOMAIN s : s[k].to # r}
<1>1. /\ at = "events" /\ mEvents # <<>> /\ Head(mEvents) = Event(r, "delete")
      /\ alive' = alive \ {r} /\ mEvents' = Subsequence(s, I)
      /\ UNCHANGED <<now, at, armed, piped, due, todo, mTimerData, mNextTimerHandle, mTimers,
                     starting, mFdData, mEventPipe, owed, work>>
      /\ UNCHANGED <<mPid, sProcesses, inStart, child>>
  BY DEF DeleteReceiver, Sending, removeEvents, loopVars, timerVars, processVars, objectVars, childVars
<1>2. /\ s \in Seq(Posts) /\ Posted(Event(r, "delete"))
      /\ \A x : Occurs(s, x) => Posted(x)
      /\ \A x : AtMostOnce(mEvents, x) => AtMostOnce(s, x)
  BY <1>1, TailDrops DEF IInv, TypeOK, LoopType, Posted
<1>3. I \in SUBSET (DOMAIN s)
  OBVIOUS
<1>4. \A i \in I : i \in DOMAIN s /\ s[i].to # r
  OBVIOUS
<1> HIDE DEF I, s
<1>5. /\ mEvents' \in Seq(Posts)
      /\ \A x : Posted(x)' => \E i \in I : s[i] = x
      /\ \A x : AtMostOnce(s, x) => AtMostOnce(mEvents', x)
  BY <1>1, <1>2, <1>3, SubsequenceHas DEF Posted
<1>6. \A x : Posted(x)' => Posted(x) /\ x.to # r
  BY <1>2, <1>4, <1>5 DEF Occurs
<1>7. LoopType'
  BY <1>1, <1>5 DEF IInv, TypeOK, LoopType
<1>8. LoopInv'
  BY <1>1, LoopIsServing DEF IInv
<1>9. EventsToLiving'
  <2> SUFFICES ASSUME NEW k \in DOMAIN mEvents' PROVE mEvents'[k].to \in alive'
    BY DEF EventsToLiving
  <2>1. Occurs(mEvents', mEvents'[k])
    BY DEF Occurs
  <2> QED  BY <1>1, <1>6, <2>1, LivingByPosts DEF IInv, TableInv, Posted
<1>10. LivesInOrder'
  <2>1. \A p \in Processes : Over(p)' => Over(p)
    BY <1>1, <1>2, <1>6 DEF Over
  <2> QED  BY <1>1, <1>2, <1>5, <1>6, <2>1 DEF IInv, TableInv, LivesInOrder, InTable
<1>11. IsFiniteSet(sProcesses')
  BY <1>1 DEF IInv, TableInv
<1> QED  BY <1>11, <1>7, <1>8, <1>9, <1>10, ProcessTypeStays DEF IInv, TypeOK, TableInv

\* The client hangs up.
LEMMA ClientGoneKeepsIInv ==
    ASSUME IInv, UNCHANGED processVars, ClientGone
    PROVE  IInv'
<1> DEFINE e == Event(Connection, "delete")
<1>1. /\ Connection \in alive /\ mEvents' = Append(mEvents, e)
      /\ mEventPipe' = mEventPipe \cup {"e"}
      /\ UNCHANGED <<now, at, armed, piped, due, todo, mTimerData, mNextTimerHandle, mTimers,
                     starting, mFdData, owed, work, alive>>
      /\ UNCHANGED <<mPid, sProcesses, inStart, child>>
  BY DEF ClientGone, PostedByLoop, loopVars, timerVars, processVars, objectVars, childVars
<1>2. e \in Posts /\ e.to = Connection /\ Connection \notin Processes
  BY EventsDiffer, ReceiversAssumption DEF Receivers
<1>3. /\ mEvents' \in Seq(Posts)
      /\ \A x : Posted(x)' <=> Posted(x) \/ x = e
      /\ \A x : AtMostOnce(mEvents, x) /\ (x = e => ~Posted(x)) => AtMostOnce(mEvents', x)
  <2> HIDE DEF e
  <2> QED  BY <1>1, <1>2, AppendAdds DEF IInv, TypeOK, LoopType, Posted
<1> HIDE DEF e
<1>4. LoopType'
  BY <1>1, <1>3 DEF IInv, TypeOK, LoopType
<1>5. LoopInv'
  BY <1>1, LoopIsTold DEF IInv
<1>6. TableInv'
  BY <1>1, <1>2, <1>3, MessageFits DEF IInv
<1> QED  BY <1>4, <1>5, <1>6, ProcessTypeStays DEF IInv, TypeOK

---------------------------------------------------------------------------
(* The Processes, on the loop.                                             *)

LEMMA ForkKeepsIInv ==
    ASSUME IInv, NEW p \in Processes, Fork(p)
    PROVE  IInv'
<1>1. /\ child[p] = "none" /\ child' = [child EXCEPT ![p] = "running"]
      /\ mPid' = mPid \cup {p} /\ inStart = <<>> /\ inStart' = <<p, "forked">>
      /\ work' = work + 1
      /\ UNCHANGED <<now, at, armed, piped, due, todo, mTimerData, mNextTimerHandle, mTimers,
                     starting, mFdData, mEvents, mEventPipe, owed, alive>>
      /\ UNCHANGED <<HAVE_SIGINFO, output, finished, sProcesses, wrote, sigchld, unread,
                     sProcessPipe, waiting, unheard>>
  BY DEF Fork, Work, loopVars, timerVars, eventVars, threadVars
<1>2. LoopType'
  BY <1>1 DEF IInv, TypeOK, LoopType
<1>3. ProcessType'
  BY <1>1 DEF IInv, TypeOK, ProcessType
<1>4. LoopInv'
  BY <1>1, LoopIsTold DEF IInv
<1>5. EventsToLiving'
  BY <1>1 DEF IInv, TableInv, EventsToLiving
<1>6. LivesInOrder'
  <2>1. /\ \A q \in Processes : child'[q] = "none" => child[q] = "none" /\ q # p
        /\ \A q \in Processes \ {p} : InTable(q)' => InTable(q)
    BY <1>1 DEF IInv, TypeOK, ProcessType, InTable
  <2>2. /\ \A x : Posted(x)' <=> Posted(x)
        /\ \A q : Over(q)' <=> Over(q)
    BY <1>1 DEF Posted, Over
  <2>3. p \notin mPid /\ ~Over(p)
    BY <1>1 DEF IInv, TableInv, LivesInOrder
  <2> QED  BY <1>1, <2>1, <2>2, <2>3 DEF IInv, TableInv, LivesInOrder, InTable
<1>7. IsFiniteSet(sProcesses')
  BY <1>1 DEF IInv, TableInv
<1> QED  BY <1>7, <1>2, <1>3, <1>4, <1>5, <1>6 DEF IInv, TypeOK, TableInv

LEMMA AddPidKeepsIInv ==
    ASSUME IInv, NEW p \in Processes, addPid(p)
    PROVE  IInv'
<1>1. /\ inStart = <<p, "forked">> /\ inStart' = <<p, "added">>
      /\ sProcesses' = sProcesses \cup {p}
      /\ UNCHANGED <<HAVE_SIGINFO, mPid, output, finished, child, wrote, sigchld, unread,
                     sProcessPipe, waiting, unheard>>
      /\ UNCHANGED eventLoopVars
  BY DEF addPid, childVars, threadVars
<1>2. ProcessType'
  BY <1>1 DEF IInv, TypeOK, ProcessType
<1>3. UNCHANGED <<at, armed, mTimerData, mEventPipe, mFdData, mEvents, owed, alive>>
  BY <1>1 DEF eventLoopVars, loopVars, timerVars, eventVars
<1>4. LoopInv'
  BY <1>3, LoopIsTold DEF IInv
<1>5. EventsToLiving'
  BY <1>3 DEF IInv, TableInv, EventsToLiving
<1>6. LivesInOrder'
  <2>1. \A q \in Processes : InTable(q)' => InTable(q)
    BY <1>1 DEF InTable
  <2>2. /\ \A x : Posted(x)' <=> Posted(x)
        /\ \A q : Over(q)' <=> Over(q)
    BY <1>3 DEF Posted, Over
  <2> QED  BY <1>1, <1>3, <2>1, <2>2 DEF IInv, TableInv, LivesInOrder
<1>7. IsFiniteSet(sProcesses')
  BY <1>1, FS_AddElement DEF IInv, TableInv
<1> QED  BY <1>1, <1>2, <1>4, <1>5, <1>6, <1>7, LoopTypeStays DEF IInv, TypeOK, TableInv

LEMMA StartEndKeepsIInv ==
    ASSUME IInv, NEW p \in Processes, StartEnd(p)
    PROVE  IInv'
<1>1. /\ inStart' = <<>> /\ mFdData' = mFdData \cup {p}
      /\ mEventPipe' = mEventPipe \cup {"wake"}
      /\ UNCHANGED <<now, at, armed, piped, due, todo, mTimerData, mNextTimerHandle, mTimers,
                     starting, mEvents, owed, work, alive>>
      /\ UNCHANGED <<HAVE_SIGINFO, mPid, output, finished, sProcesses, child, wrote, sigchld,
                     unread, sProcessPipe, waiting, unheard>>
  BY DEF StartEnd, addFileDescriptor, loopVars, timerVars, childVars, threadVars
<1>2. LoopType' /\ ProcessType'
  BY <1>1 DEF IInv, TypeOK, LoopType, ProcessType
<1>3. LoopInv'
  BY <1>1, LoopIsTold DEF IInv
<1>4. TableInv'
  BY <1>1, TableStays DEF IInv, Posted
<1> QED  BY <1>2, <1>3, <1>4 DEF IInv, TypeOK

LEMMA HandleOutputKeepsIInv ==
    ASSUME IInv, NEW p \in Processes, HandleOutput(p)
    PROVE  IInv'
<1>1. /\ output' = [output EXCEPT ![p] = @ + unread[p]] /\ unread' = [unread EXCEPT ![p] = 0]
      /\ mFdData' \in SUBSET mFdData /\ todo' = todo \ {p}
      /\ UNCHANGED <<now, at, armed, piped, due, mTimerData, mNextTimerHandle, mTimers,
                     starting, mEvents, mEventPipe, owed, work, alive>>
      /\ UNCHANGED <<HAVE_SIGINFO, mPid, inStart, finished, sProcesses, child, wrote, sigchld,
                     sProcessPipe, waiting, unheard>>
  BY DEF HandleOutput, removeFileDescriptor, timerVars, eventVars, childVars, threadVars
<1>2. LoopType' /\ ProcessType'
  BY <1>1 DEF IInv, TypeOK, LoopType, ProcessType
<1>3. LoopInv'
  BY <1>1, LoopIsTold DEF IInv
<1>4. TableInv'
  BY <1>1, TableStays DEF IInv, Posted
<1> QED  BY <1>2, <1>3, <1>4 DEF IInv, TypeOK

\* A Process reports its end, and is to be deleted.
LEMMA DeliverFinishedKeepsIInv ==
    ASSUME IInv, NEW p \in Processes, DeliverFinished(p)
    PROVE  IInv'
<1> DEFINE e == Event(p, "delete")
           f == Event(p, "finished")
           s == Tail(mEvents)
<1>1. /\ at = "events" /\ mEvents # <<>> /\ Head(mEvents) = f /\ p \in mPid
      /\ mPid' = mPid \ {p} /\ mEvents' = Append(s, e) /\ mEventPipe' = mEventPipe \cup {"e"}
      /\ output' = [output EXCEPT ![p] = @ + unread[p]] /\ unread' = [unread EXCEPT ![p] = 0]
      /\ mFdData' = mFdData \ {p}
      /\ finished' = [finished EXCEPT ![p] = Append(@, output'[p])]
      /\ UNCHANGED <<now, at, armed, piped, due, todo, mTimerData, mNextTimerHandle, mTimers,
                     starting, owed, work, alive>>
      /\ UNCHANGED <<HAVE_SIGINFO, inStart, sProcesses, child, wrote, sigchld, sProcessPipe,
                     waiting, unheard>>
  BY DEF DeliverFinished, Sending, closeStdOut, removeFileDescriptor, PostedByLoop, loopVars,
         timerVars, childVars, threadVars
<1>2. /\ e \in Posts /\ e.to = p /\ e # f
      /\ \A q \in Processes : Event(q, "finished") # e
      /\ \A q \in Processes : Event(q, "delete") = e => q = p
      /\ \A q \in Processes : Event(q, "finished") = f => q = p
  BY EventsDiffer DEF Receivers
<1>3. /\ s \in Seq(Posts) /\ Posted(f)
      /\ \A x : Occurs(s, x) => Posted(x)
      /\ \A x : AtMostOnce(mEvents, x) => AtMostOnce(s, x)
      /\ AtMostOnce(mEvents, f) => ~Occurs(s, f)
  BY <1>1, TailDrops DEF IInv, TypeOK, LoopType, Posted
<1> HIDE DEF e, s
<1>4. /\ mEvents' \in Seq(Posts)
      /\ \A x : Posted(x)' <=> Occurs(s, x) \/ x = e
      /\ \A x : AtMostOnce(s, x) /\ (x = e => ~Occurs(s, x)) => AtMostOnce(mEvents', x)
  BY <1>1, <1>2, <1>3, AppendAdds DEF Posted
<1>5. AtMostOnce(mEvents, f) /\ ~InTable(p) /\ child[p] # "none" /\ p \in alive
  <2>1. AtMostOnce(mEvents, f) /\ ~InTable(p) /\ child[p] # "none"
    BY <1>1, <1>3 DEF IInv, TableInv, LivesInOrder
  <2>2. p \in alive
    BY <1>3, LivingByPosts, EventsDiffer DEF IInv, TableInv
  <2> QED  BY <2>1, <2>2
<1> HIDE DEF f
<1>6. LoopType' /\ ProcessType'
  <2>1. LoopType'
    BY <1>1, <1>4 DEF IInv, TypeOK, LoopType
  <2>2. output' \in [Processes -> Nat] /\ unread' \in [Processes -> Nat]
    BY <1>1 DEF IInv, TypeOK, ProcessType
  <2>3. finished' \in [Processes -> Seq(Nat)]
    <3>1. output'[p] \in Nat /\ finished[p] \in Seq(Nat)
      BY <2>2 DEF IInv, TypeOK, ProcessType
    <3>2. Append(finished[p], output'[p]) \in Seq(Nat)
      BY <3>1, AppendProperties
    <3> QED  BY <1>1, <3>2 DEF IInv, TypeOK, ProcessType
  <2> QED  BY <1>1, <2>1, <2>2, <2>3 DEF IInv, TypeOK, ProcessType
<1>7. LoopInv'
  BY <1>1, LoopIsServing DEF IInv
<1>8. EventsToLiving'
  <2> SUFFICES ASSUME NEW k \in DOMAIN mEvents' PROVE mEvents'[k].to \in alive
    BY <1>1 DEF EventsToLiving
  <2>1. Occurs(s, mEvents'[k]) \/ mEvents'[k] = e
    BY <1>4 DEF Posted, Occurs
  <2> QED  BY <1>2, <1>3, <1>5, <2>1, LivingByPosts DEF IInv, TableInv
<1>9. LivesInOrder'
  <2> SUFFICES ASSUME NEW q \in Processes
               PROVE  /\ Over(q)' => ~InTable(q)' /\ child'[q] # "none"
                      /\ Posted(Event(q, "finished"))' => ~InTable(q)'
                      /\ Posted(Event(q, "finished"))' \/ InTable(q)' => q \in mPid'
                      /\ q \in mPid' => child'[q] # "none"
                      /\ q \in sProcesses => inStart # <<q, "forked">>
                      /\ AtMostOnce(mEvents', Event(q, "finished"))
    BY <1>1 DEF LivesInOrder
  <2>1. /\ InTable(q)' <=> InTable(q)
        /\ Posted(Event(q, "finished"))' => Occurs(s, Event(q, "finished"))
        /\ AtMostOnce(mEvents', Event(q, "finished"))
    BY <1>1, <1>2, <1>3, <1>4 DEF InTable, IInv, TableInv, LivesInOrder
  <2>2. CASE q = p
    <3>1. ~Posted(Event(q, "finished"))'
      BY <1>3, <1>5, <2>1, <2>2 DEF f
    <3> QED  BY <1>1, <1>5, <2>1, <2>2, <3>1 DEF InTable
  <2>3. CASE q # p
    <3>1. Over(q)' => Over(q)
      BY <1>1, <1>2, <1>3, <1>4, <2>3 DEF Over
    <3>2. Posted(Event(q, "finished"))' => Posted(Event(q, "finished"))
      BY <1>3, <2>1
    <3> QED  BY <1>1, <2>1, <2>3, <3>1, <3>2 DEF IInv, TableInv, LivesInOrder
  <2> QED  BY <2>2, <2>3
<1>10. IsFiniteSet(sProcesses')
  BY <1>1 DEF IInv, TableInv
<1> QED  BY <1>10, <1>6, <1>7, <1>8, <1>9 DEF IInv, TypeOK, TableInv

---------------------------------------------------------------------------
(* The ProcessThread.                                                      *)

\* The ProcessThread reports the Processes of gone, which leave the table.
LEMMA ReportKeepsTable ==
    ASSUME IInv, NEW gone \in SUBSET sProcesses, sProcesses' = sProcesses \ gone,
           UNCHANGED <<alive, mPid, inStart>>,
           \A p \in Processes : child'[p] = "none" => child[p] = "none",
           \A x : Posted(x)' => Posted(x) \/ \E p \in gone : x = Event(p, "finished"),
           \A p \in Processes : AtMostOnce(mEvents', Event(p, "finished"))
    PROVE  TableInv'
<1>1. /\ \A p \in Processes : \A q : Event(p, "finished") = Event(q, "finished") => p = q
      /\ \A p, q : Event(p, "delete") # Event(q, "finished")
  BY EventsDiffer
<1>2. gone \subseteq Processes /\ \A p \in gone : ~Over(p) /\ p \in mPid /\ InTable(p)
  BY DEF IInv, TypeOK, ProcessType, TableInv, LivesInOrder, InTable
<1>3. EventsToLiving'
  <2> SUFFICES ASSUME NEW k \in DOMAIN mEvents' PROVE mEvents'[k].to \in alive
    BY DEF EventsToLiving
  <2>1. Posted(mEvents'[k]) \/ \E p \in gone : mEvents'[k] = Event(p, "finished")
    BY DEF Posted, Occurs
  <2> QED  BY <1>2, <2>1, LivingByPosts, EventsDiffer DEF IInv, TableInv, Over
<1>4. \A p \in Processes : /\ InTable(p)' <=> InTable(p) /\ p \notin gone
                           /\ Over(p)' => Over(p)
                           /\ Posted(Event(p, "finished"))' =>
                                Posted(Event(p, "finished")) \/ p \in gone
  <2> TAKE p \in Processes
  <2>1. p \in gone => inStart # <<p, "forked">>
    BY DEF IInv, TableInv, LivesInOrder
  <2>2. InTable(p)' <=> InTable(p) /\ p \notin gone
    BY <2>1 DEF InTable
  <2>3. Over(p)' => Over(p)
    BY <1>1 DEF Over
  <2>4. Posted(Event(p, "finished"))' => Posted(Event(p, "finished")) \/ p \in gone
    BY <1>1
  <2> QED  BY <2>2, <2>3, <2>4
<1>5. LivesInOrder'
  BY <1>2, <1>4 DEF IInv, TableInv, LivesInOrder
<1>6. IsFiniteSet(sProcesses')
  BY FS_Subset DEF IInv, TableInv
<1> QED  BY <1>3, <1>5, <1>6 DEF TableInv

LEMMA PollChildrenKeepsIInv ==
    ASSUME IInv, PollChildren
    PROVE  IInv'
<1> DEFINE ended == {p \in sProcesses : child[p] = "zombie"}
<1>1. /\ waiting.step = "poll" /\ waiting' = Reading /\ sProcesses' = sProcesses \ ended
      /\ child' = [p \in Processes |-> IF p \in ended THEN "reaped" ELSE child[p]]
      /\ unheard' = unheard \cup {p \in Processes \ sProcesses : child[p] = "zombie"}
      /\ UNCHANGED <<now, at, armed, piped, due, todo, mTimerData, mNextTimerHandle, mTimers,
                     starting, mFdData, mEventPipe, work, alive>>
      /\ UNCHANGED <<HAVE_SIGINFO, mPid, inStart, output, finished, wrote, sigchld, unread,
                     sProcessPipe>>
  BY DEF PollChildren, loopVars, timerVars, objectVars
<1>2. ended \in SUBSET sProcesses
  OBVIOUS
<1>3. IF ended = {} THEN UNCHANGED <<mEvents, owed>>
      ELSE \E new \in FinishedEvents(ended) : Pushed("reaper", new)
  BY DEF PollChildren
<1> HIDE DEF ended
<1>4. ProcessType'
  <2>1. child' \in [Processes -> {"none", "running", "zombie", "reaped"}]
    BY <1>1 DEF IInv, TypeOK, ProcessType
  <2>2. waiting' \in [step : {"read", "poll"}, pid : {<<>>}]
    BY <1>1 DEF Reading
  <2> QED  BY <1>1, <2>1, <2>2 DEF IInv, TypeOK, ProcessType
<1>5. \A p \in Processes : child'[p] = "none" => child[p] = "none"
  BY <1>1
<1>6. CASE ended = {}
  <2>1. UNCHANGED <<mEvents, owed>>
    BY <1>3, <1>6
  <2>2. LoopType'
    BY <1>1, <2>1 DEF IInv, TypeOK, LoopType
  <2>3. LoopInv'
    BY <1>1, <2>1, LoopIsTold DEF IInv
  <2>4. TableInv'
    BY <1>1, <1>5, <1>6, <2>1, TableStays DEF IInv, Posted
  <2> QED  BY <1>4, <2>2, <2>3, <2>4 DEF IInv, TypeOK
<1>7. CASE ended # {}
  <2>1. PICK new \in FinishedEvents(ended) : mEvents' = mEvents \o new /\ owed' = owed \cup {"reaper"}
    BY <1>3, <1>7 DEF Pushed
  <2> DEFINE n == Cardinality(ended)
  <2>2. PICK list \in [1..n -> ended] :
          /\ \A j, k \in 1..n : list[j] = list[k] => j = k
          /\ new = [k \in 1..n |-> Event(list[k], "finished")]
    BY <2>1 DEF FinishedEvents
  <2>3. ended \subseteq Processes
    BY <1>2 DEF IInv, TypeOK, ProcessType
  <2>4. DOMAIN new = 1..n /\ \A k \in 1..n : list[k] \in ended /\ new[k] = Event(list[k], "finished")
    BY <2>2
  <2>5. \A p \in Processes : \A q : Event(p, "finished") = Event(q, "finished") => p = q
    BY EventsDiffer
  <2>6. new \in Seq(Posts)
    <3>1. new \in [1..n -> Posts]
      <4>1. \A k \in 1..n : new[k] \in Posts
        BY <2>3, <2>4, EventsDiffer DEF Receivers
      <4> QED  BY <2>2, <4>1
    <3>2. n \in Nat
      BY <1>2, FS_Subset, FS_CardinalityType DEF IInv, TableInv
    <3> QED  BY <3>1, <3>2, SeqDef
  <2>7. /\ \A x : Occurs(new, x) => \E p \in ended : x = Event(p, "finished")
        /\ \A p \in Processes : AtMostOnce(new, Event(p, "finished"))
    BY <2>2, <2>3, <2>4, <2>5 DEF Occurs, AtMostOnce
  <2>8. /\ mEvents' \in Seq(Posts)
        /\ \A x : Posted(x)' <=> Posted(x) \/ Occurs(new, x)
        /\ \A x : /\ AtMostOnce(mEvents, x) /\ AtMostOnce(new, x)
                  /\ ~(Posted(x) /\ Occurs(new, x))
                 => AtMostOnce(mEvents', x)
    BY <2>1, <2>6, ConcatAdds DEF IInv, TypeOK, LoopType, Posted
  <2>9. LoopType'
    BY <1>1, <2>1, <2>8 DEF IInv, TypeOK, LoopType
  <2>10. LoopInv'
    BY <1>1, <2>1, LoopIsTold DEF IInv
  <2>11. \A p \in Processes : AtMostOnce(mEvents', Event(p, "finished"))
    <3>1. \A p \in ended : ~Posted(Event(p, "finished"))
      BY <1>2, <2>3 DEF IInv, TableInv, LivesInOrder, InTable
    <3> QED  BY <2>3, <2>5, <2>7, <2>8, <3>1 DEF IInv, TableInv, LivesInOrder
  <2>12. TableInv'
    BY <1>1, <1>2, <1>5, <2>7, <2>8, <2>11, ReportKeepsTable
  <2> QED  BY <1>4, <2>9, <2>10, <2>12 DEF IInv, TypeOK
<1> QED  BY <1>6, <1>7

LEMMA LookupKeepsIInv ==
    ASSUME IInv, Lookup
    PROVE  IInv'
<1> DEFINE p == waiting.pid[1]
<1>1. /\ waiting.step = "lookup" /\ waiting' = Reading
      /\ UNCHANGED <<now, at, armed, piped, due, todo, mTimerData, mNextTimerHandle, mTimers,
                     starting, mFdData, mEventPipe, work, alive>>
      /\ UNCHANGED <<HAVE_SIGINFO, mPid, inStart, output, finished, child, wrote, sigchld, unread,
                     sProcessPipe>>
  BY DEF Lookup, loopVars, timerVars, objectVars, childVars
<1>2. p \in Processes
  BY <1>1 DEF IInv, TypeOK, ProcessType, Pids
<1>3. waiting' \in [step : {"read", "poll"}, pid : {<<>>}]
  BY <1>1 DEF Reading
<1>4. CASE /\ p \in sProcesses /\ Pushed("reaper", <<Event(p, "finished")>>)
           /\ sProcesses' = sProcesses \ {p} /\ UNCHANGED unheard
  <2> DEFINE e == Event(p, "finished")
  <2> HIDE DEF p
  <2>1. mEvents' = mEvents \o <<e>> /\ owed' = owed \cup {"reaper"}
    BY <1>4 DEF Pushed
  <2>2. /\ e \in Posts
        /\ \A q \in Processes : Event(q, "finished") = e => q = p
    BY <1>2, EventsDiffer DEF Receivers
  <2>3. ~Posted(e)
    BY <1>2, <1>4 DEF IInv, TableInv, LivesInOrder, InTable
  <2> HIDE DEF e
  <2>4. <<e>> \in Seq(Posts) /\ (\A x : Occurs(<<e>>, x) => x = e) /\ AtMostOnce(<<e>>, e)
    BY <2>2 DEF Occurs, AtMostOnce
  <2>5. /\ mEvents' \in Seq(Posts)
        /\ \A x : Posted(x)' <=> Posted(x) \/ Occurs(<<e>>, x)
        /\ \A x : /\ AtMostOnce(mEvents, x) /\ AtMostOnce(<<e>>, x)
                  /\ ~(Posted(x) /\ Occurs(<<e>>, x))
                 => AtMostOnce(mEvents', x)
    BY <2>1, <2>4, ConcatAdds DEF IInv, TypeOK, LoopType, Posted
  <2>6. LoopType' /\ ProcessType'
    BY <1>1, <1>3, <1>4, <2>1, <2>5 DEF IInv, TypeOK, LoopType, ProcessType
  <2>7. LoopInv'
    BY <1>1, <2>1, LoopIsTold DEF IInv
  <2>8. \A q \in Processes : AtMostOnce(mEvents', Event(q, "finished"))
    <3> TAKE q \in Processes
    <3>1. AtMostOnce(mEvents, Event(q, "finished"))
      BY DEF IInv, TableInv, LivesInOrder
    <3>2. CASE Event(q, "finished") = e
      BY <2>3, <2>4, <2>5, <3>1, <3>2
    <3>3. CASE Event(q, "finished") # e
      <4>1. ~Occurs(<<e>>, Event(q, "finished"))
        BY <2>4, <3>3
      <4>2. AtMostOnce(<<e>>, Event(q, "finished"))
        BY <4>1 DEF Occurs, AtMostOnce
      <4> QED  BY <2>5, <3>1, <4>1, <4>2
    <3> QED  BY <3>2, <3>3
  <2>9. TableInv'
    <3>1. {p} \in SUBSET sProcesses
      BY <1>4
    <3>2. \A x : Posted(x)' => Posted(x) \/ \E q \in {p} : x = Event(q, "finished")
      BY <2>4, <2>5 DEF e
    <3> QED  BY <1>1, <1>4, <2>8, <3>1, <3>2, ReportKeepsTable
  <2> QED  BY <2>6, <2>7, <2>9 DEF IInv, TypeOK
<1>5. CASE unheard' = unheard \cup {p} /\ UNCHANGED <<mEvents, owed, sProcesses>>
  <2> HIDE DEF p
  <2>1. LoopType' /\ ProcessType'
    BY <1>1, <1>2, <1>3, <1>5 DEF IInv, TypeOK, LoopType, ProcessType
  <2>2. LoopInv'
    BY <1>1, <1>5, LoopIsTold DEF IInv
  <2>3. TableInv'
    BY <1>1, <1>5, TableStays DEF IInv, Posted
  <2> QED  BY <2>1, <2>2, <2>3 DEF IInv, TypeOK
<1> QED  BY <1>4, <1>5 DEF Lookup

\* A step that has nothing to do with the loop.
LEMMA LoopKeepsIInv ==
    ASSUME IInv, ProcessType', UNCHANGED eventLoopVars,
           UNCHANGED <<mPid, sProcesses, inStart>>,
           \A p \in Processes : child'[p] = "none" => child[p] = "none"
    PROVE  IInv'
<1>1. UNCHANGED <<at, armed, mTimerData, mEventPipe, mFdData, mEvents, owed, alive>>
  BY DEF eventLoopVars, loopVars, timerVars, eventVars
<1>2. LoopInv'
  BY <1>1, LoopIsTold DEF IInv
<1>3. TableInv'
  BY <1>1, TableStays DEF IInv, Posted
<1> QED  BY <1>2, <1>3, LoopTypeStays DEF IInv, TypeOK

\* The other steps of the ProcessThread, the children and the signal.
LEMMA ChildrenKeepIInv ==
    ASSUME IInv, \/ ReadPid \/ WaitPid \/ processSignalHandler
                 \/ \E p \in Processes : ChildWrites(p) \/ ChildExits(p)
    PROVE  IInv'
<1>1. UNCHANGED eventLoopVars /\ UNCHANGED <<HAVE_SIGINFO, mPid, sProcesses, inStart, output, finished>>
  BY DEF ReadPid, WaitPid, processSignalHandler, ChildWrites, ChildExits, objectVars
<1>2. CASE ReadPid
  <2>1. /\ sProcessPipe # <<>> /\ sProcessPipe' = Tail(sProcessPipe)
        /\ waiting' = IF Head(sProcessPipe) = <<>> THEN [step |-> "poll", pid |-> <<>>]
                                                  ELSE [step |-> "wait", pid |-> Head(sProcessPipe)]
        /\ UNCHANGED <<child, wrote, sigchld, unread, unheard>>
    BY <1>2 DEF ReadPid, childVars
  <2>2. sProcessPipe' \in Seq({<<>>} \cup Pids) /\ Head(sProcessPipe) \in {<<>>} \cup Pids
    BY <2>1, TailDrops DEF IInv, TypeOK, ProcessType
  <2>3. waiting' \in [step : {"read", "poll"}, pid : {<<>>}] \cup [step : {"wait", "lookup"}, pid : Pids]
    <3>1. CASE Head(sProcessPipe) = <<>>
      BY <2>1, <3>1
    <3>2. CASE Head(sProcessPipe) # <<>>
      BY <2>1, <2>2, <3>2
    <3> QED  BY <3>1, <3>2
  <2>4. ProcessType'
    BY <1>1, <2>1, <2>2, <2>3 DEF IInv, TypeOK, ProcessType
  <2> QED  BY <1>1, <2>1, <2>4, LoopKeepsIInv
<1>3. CASE WaitPid
  <2>1. /\ waiting.step = "wait" /\ waiting' = [waiting EXCEPT !.step = "lookup"]
        /\ child' = [child EXCEPT ![waiting.pid[1]] = "reaped"]
        /\ UNCHANGED <<sProcessPipe, wrote, sigchld, unread, unheard>>
    BY <1>3 DEF WaitPid
  <2>2. waiting \in [step : {"wait", "lookup"}, pid : Pids]
    BY <2>1 DEF IInv, TypeOK, ProcessType
  <2>3. waiting' \in [step : {"wait", "lookup"}, pid : Pids]
    BY <2>1, <2>2
  <2>4. ProcessType'
    BY <1>1, <2>1, <2>3 DEF IInv, TypeOK, ProcessType
  <2>5. \A p \in Processes : child'[p] = "none" => child[p] = "none"
    BY <2>1 DEF IInv, TypeOK, ProcessType
  <2> QED  BY <1>1, <2>4, <2>5, LoopKeepsIInv
<1>4. CASE processSignalHandler
  <2>1. /\ sigchld # <<>> /\ sigchld' = <<>>
        /\ sProcessPipe' = Append(sProcessPipe, IF HAVE_SIGINFO THEN sigchld ELSE <<>>)
        /\ UNCHANGED <<child, wrote, unread, waiting, unheard>>
    BY <1>4 DEF processSignalHandler
  <2>2. sProcessPipe' \in Seq({<<>>} \cup Pids)
    BY <2>1, AppendProperties DEF IInv, TypeOK, ProcessType
  <2>3. ProcessType'
    BY <1>1, <2>1, <2>2 DEF IInv, TypeOK, ProcessType
  <2> QED  BY <1>1, <2>1, <2>3, LoopKeepsIInv
<1>5. ASSUME NEW p \in Processes, ChildWrites(p) PROVE IInv'
  <2>1. /\ wrote' = [wrote EXCEPT ![p] = @ + 1] /\ unread' = [unread EXCEPT ![p] = @ + 1]
        /\ UNCHANGED <<child, sigchld, sProcessPipe, waiting, unheard>>
    BY <1>5 DEF ChildWrites, threadVars
  <2>2. ProcessType'
    BY <1>1, <2>1 DEF IInv, TypeOK, ProcessType
  <2> QED  BY <1>1, <2>1, <2>2, LoopKeepsIInv
<1>6. ASSUME NEW p \in Processes, ChildExits(p) PROVE IInv'
  <2>1. /\ child' = [child EXCEPT ![p] = "zombie"]
        /\ sigchld' = IF sigchld = <<>> THEN <<p>> ELSE sigchld
        /\ unheard' = IF sigchld # <<>> /\ HAVE_SIGINFO THEN unheard \cup {p} ELSE unheard
        /\ UNCHANGED <<wrote, unread, sProcessPipe, waiting>>
    BY <1>6 DEF ChildExits, threadVars
  <2>2. ProcessType'
    BY <1>1, <2>1 DEF IInv, TypeOK, ProcessType, Pids
  <2>3. \A q \in Processes : child'[q] = "none" => child[q] = "none"
    BY <2>1 DEF IInv, TypeOK, ProcessType
  <2> QED  BY <1>1, <2>2, <2>3, LoopKeepsIInv
<1> QED  BY <1>2, <1>3, <1>4, <1>5, <1>6

---------------------------------------------------------------------------
(* The threads that give the loop its work, and the clock.                 *)

LEMMA PoolKeepsIInv ==
    ASSUME IInv, UNCHANGED processVars, PoolStep \/ PostByte("reaper") \/ Tick
    PROVE  IInv'
<1>1. UNCHANGED <<mPid, sProcesses, inStart, child>>
  BY DEF processVars, objectVars, childVars
<1>2. CASE StartTimer
  <2> DEFINE t == [handle |-> mNextTimerHandle', when |-> now + Timeout]
  <2>1. /\ work' = work + 1 /\ mNextTimerHandle' = mNextTimerHandle + 1
        /\ mTimerData' = Inserted(t) /\ mEventPipe' = mEventPipe \cup {"wake"}
        /\ starting' = mNextTimerHandle' /\ mTimers' = {}
        /\ UNCHANGED <<now, at, armed, piped, due, todo, mFdData, mEvents, owed, alive>>
    BY <1>2 DEF StartTimer, Work, addTimer, loopVars
  <2>2. t \in Timers
    BY <2>1, TimeoutAssumption DEF Timers, IInv, TypeOK, LoopType
  <2> HIDE DEF t
  <2>3. mTimerData' \in Seq(Timers) /\ InOrder(mTimerData')
    BY <2>1, <2>2, InsertedKeepsOrder DEF IInv, TypeOK, LoopType, LoopInv
  <2>4. LoopType'
    BY <2>1, <2>3 DEF IInv, TypeOK, LoopType
  <2>5. LoopInv'
    BY <2>1, <2>3 DEF IInv, LoopInv, EventsSeen, InOrder, SelectIsCurrent
  <2>6. TableInv'
    BY <1>1, <2>1, TableStays DEF IInv, Posted
  <2> QED  BY <2>4, <2>5, <2>6, ProcessTypeStays DEF IInv, TypeOK
<1>3. CASE StartTimerEnd \/ Tick \/ PostByte("pool") \/ PostByte("reaper")
  <2>1. /\ UNCHANGED <<at, armed, piped, due, todo, mTimerData, mNextTimerHandle, mFdData, mEvents,
                       work, alive>>
        /\ now' \in {now, now + 1}
        /\ mTimers' \in {mTimers, mTimers \cup {starting}} /\ starting' \in {starting, 0}
        /\ owed' \in SUBSET owed /\ mEventPipe' \in {mEventPipe, mEventPipe \cup {"e"}}
        /\ "e" \in mEventPipe' \/ owed' = owed
    BY <1>3 DEF StartTimerEnd, Tick, PostByte, loopVars, timerVars, eventVars
  <2>2. LoopType'
    BY <2>1 DEF IInv, TypeOK, LoopType
  <2>3. LoopInv'
    BY <2>1, LoopIsTold DEF IInv
  <2>4. TableInv'
    BY <1>1, <2>1, TableStays DEF IInv, Posted
  <2> QED  BY <2>2, <2>3, <2>4, ProcessTypeStays DEF IInv, TypeOK
<1>4. CASE Post
  <2> DEFINE e == Event(Connection, "message")
  <2>1. /\ Connection \in alive /\ mEvents' = mEvents \o <<e>> /\ owed' = owed \cup {"pool"}
        /\ work' = work + 1
        /\ UNCHANGED <<now, at, armed, piped, due, todo, mTimerData, mNextTimerHandle, mTimers,
                       starting, mFdData, mEventPipe, alive>>
    BY <1>4 DEF Post, Work, Pushed, loopVars, timerVars
  <2>2. e \in Posts /\ e.to = Connection /\ Connection \notin Processes
    BY EventsDiffer, ReceiversAssumption DEF Receivers
  <2> HIDE DEF e
  <2>3. <<e>> \in Seq(Posts) /\ (\A x : Occurs(<<e>>, x) => x = e)
        /\ \A x : x # e => AtMostOnce(<<e>>, x)
    BY <2>2 DEF Occurs, AtMostOnce
  <2>4. /\ mEvents' \in Seq(Posts)
        /\ \A x : Posted(x)' => Posted(x) \/ x = e
        /\ \A x : AtMostOnce(mEvents, x) /\ x # e => AtMostOnce(mEvents', x)
    BY <2>1, <2>3, ConcatAdds DEF IInv, TypeOK, LoopType, Posted
  <2>5. LoopType'
    BY <2>1, <2>4 DEF IInv, TypeOK, LoopType
  <2>6. LoopInv'
    BY <2>1, LoopIsTold DEF IInv
  <2>7. TableInv'
    BY <1>1, <2>1, <2>2, <2>4, MessageFits DEF IInv
  <2> QED  BY <2>5, <2>6, <2>7, ProcessTypeStays DEF IInv, TypeOK
<1> QED  BY <1>2, <1>3, <1>4 DEF PoolStep

---------------------------------------------------------------------------
(* The invariant.                                                          *)

LEMMA NextKeepsIInv == IInv /\ [Next]_vars => IInv'
<1> SUFFICES ASSUME IInv, [Next]_vars PROVE IInv'
  OBVIOUS
<1>1. CASE OfTheLoop(LoopStep(Readable))
  BY <1>1, RoundKeepsIInv, DeliverMessageKeepsIInv, DeleteReceiverKeepsIInv
     DEF OfTheLoop, LoopStep, Receivers
<1>2. ASSUME NEW p \in Processes, ProcessStep(p) PROVE IInv'
  BY <1>2, AddPidKeepsIInv, StartEndKeepsIInv, HandleOutputKeepsIInv, DeliverFinishedKeepsIInv
     DEF ProcessStep
<1>3. ASSUME NEW p \in Processes, OfTheLoop(DeleteReceiver(p)) PROVE IInv'
  BY <1>3, DeleteReceiverKeepsIInv DEF OfTheLoop, Receivers
<1>4. CASE Reaper
  BY <1>4, ChildrenKeepIInv, PollChildrenKeepsIInv, LookupKeepsIInv, PoolKeepsIInv DEF Reaper
<1>5. CASE Pool \/ Clock
  BY <1>5, PoolKeepsIInv DEF Pool, Clock
<1>6. CASE Queries
  BY <1>6, ClientGoneKeepsIInv, ForkKeepsIInv DEF Queries, OfTheLoop
<1>7. CASE Children \/ processSignalHandler
  BY <1>7, ChildrenKeepIInv DEF Children
<1>8. CASE UNCHANGED vars
  <2>1. UNCHANGED eventLoopVars /\ UNCHANGED processVars
    BY <1>8 DEF vars
  <2>2. UNCHANGED <<mPid, sProcesses, inStart, child>>
    BY <2>1 DEF processVars, objectVars, childVars
  <2> QED  BY <2>1, <2>2, ProcessTypeStays, LoopKeepsIInv DEF IInv, TypeOK
<1> QED  BY <1>1, <1>2, <1>3, <1>4, <1>5, <1>6, <1>7, <1>8 DEF Next, Loop

LEMMA IInvHolds == Spec => []IInv
<1>1. Init => IInv
  BY InitIInv
<1>2. IInv /\ [Next]_vars => IInv'
  BY NextKeepsIInv
<1> QED  BY <1>1, <1>2, PTL DEF Spec

---------------------------------------------------------------------------
(* What it keeps.                                                          *)

\* Whatever the loop goes through or takes out of a table is of the kind it
\* takes it for: timers, fds of children, events, pids (EventLoop.cpp,
\* Process.cpp).
THEOREM LoopTypeCorrect == Spec => []TypeOK
<1>1. IInv => TypeOK
  BY DEF IInv
<1> QED  BY <1>1, IInvHolds, PTL

\* While run() waits in select(), any fd, timer or event that it does not know
\* of has left it a byte to wake up for, or is about to, and it waits for no
\* longer than any of its timers does, however many threads give it work
\* (EventLoop.cpp addTimer, addFileDescriptor, postEvent, run).
THEOREM SelectIsCurrentHolds == Spec => []SelectIsCurrent
<1>1. IInv => SelectIsCurrent
  BY DEF IInv, LoopInv
<1> QED  BY <1>1, IInvHolds, PTL

\* No event is delivered to a receiver that was deleted, whoever posts it and
\* however late: ~EventReceiver() takes its events out of the queue, and the
\* ProcessThread posts to a Process only while the table has it.
THEOREM EventsToLivingHolds == Spec => []EventsToLiving
<1>1. IInv => EventsToLiving
  BY DEF IInv, TableInv
<1> QED  BY <1>1, IInvHolds, PTL

\* The end of a child reaches a Process that is still to hear of it: the branch
\* of Process::event() for one that "already finished" (Process.cpp:241) is never
\* taken, nor is a second report ever in the queue.
ReportedOnce ==
    \A p \in Processes : /\ Posted(Event(p, "finished")) => p \in mPid
                         /\ AtMostOnce(mEvents, Event(p, "finished"))

THEOREM ReportedOnceHolds == Spec => []ReportedOnce
<1>1. IInv => ReportedOnce
  BY DEF IInv, TableInv, LivesInOrder, ReportedOnce
<1> QED  BY <1>1, IInvHolds, PTL
===========================================================================
