--------------------------- MODULE Session_proofs ---------------------------
(***************************************************************************)
(* The bytes between rdm and rc, for any command lines and any sizes of    *)
(* messages, of the socket and of the pieces in which it is read.          *)
(*                                                                         *)
(* They are a queue of whole messages because the buffer, the socket and   *)
(* what is unsent, put behind each other, are framed.  They answer the     *)
(* command that rc runs because rdm has one activity at a time for it, and *)
(* none once rc has seen the end.                                          *)
(***************************************************************************)
EXTENDS Session, Integers, FiniteSetTheorems, SequenceTheorems, WellFoundedInduction, TLAPS

---------------------------------------------------------------------------
(* Numbers up to n, one after another.                                     *)

\* A set of numbers that has the first one, and with each the next.
LEMMA UpTo ==
    ASSUME NEW n \in Nat, NEW T, 0 \in T, \A k \in 1..n : k - 1 \in T => k \in T
    PROVE  \A k \in 0..n : k \in T
<1> SUFFICES ASSUME \E k \in 0..n : k \notin T
             PROVE  FALSE
  OBVIOUS
<1> DEFINE R == {p \in Nat \X Nat : p[1] < p[2]}
<1> DEFINE N == {k \in 0..n : k \notin T}
<1>1. IsWellFoundedOn(R, Nat)
  BY NatLessThanWellFounded DEF OpToRel
<1>2. N \subseteq Nat /\ N # {}
  OBVIOUS
<1>3. PICK k \in N : \A j \in N : <<j, k>> \notin R
  <2> HIDE DEF R, N
  <2> QED  BY <1>1, <1>2, WFMin
<1>4. k # 0 /\ k \in 1..n
  BY <1>3
<1>5. k - 1 \notin N
  <2>1. k - 1 \in Nat /\ k \in Nat
    BY <1>4
  <2>2. <<k - 1, k>> \in R
    BY <2>1
  <2> QED  BY <1>3, <2>2
<1>6. k - 1 \in T
  BY <1>4, <1>5
<1> QED  BY <1>3, <1>4, <1>6

\* f takes n steps from base.
Steps(f, n, base, step) ==
    /\ f = [k \in 0..n |-> IF k = 0 THEN base ELSE step[<<k, f[k - 1]>>]]
Stepped(n, Acc, base, step) == \E f \in [0..n -> Acc] : Steps(f, n, base, step)

LEMMA StepsExist ==
    ASSUME NEW n \in Nat, NEW Acc, NEW base \in Acc, NEW step \in [(1..n) \X Acc -> Acc]
    PROVE  Stepped(n, Acc, base, step)
<1> DEFINE T == {m \in 0..n : Stepped(m, Acc, base, step)}
<1>1. 0 \in T
  <2> DEFINE f == [k \in 0..0 |-> base]
  <2>1. f \in [0..0 -> Acc]
    OBVIOUS
  <2>2. Steps(f, 0, base, step)
    BY DEF Steps
  <2> HIDE DEF f
  <2> QED  BY <2>1, <2>2 DEF Stepped
<1>2. ASSUME NEW m \in 1..n, m - 1 \in T
      PROVE  m \in T
  <2>1. PICK f \in [0..(m - 1) -> Acc] : Steps(f, m - 1, base, step)
    BY <1>2 DEF Stepped
  <2> DEFINE g == [k \in 0..m |-> IF k = m THEN step[<<m, f[m - 1]>>] ELSE f[k]]
  <2>2. m - 1 \in 0..(m - 1) /\ m \in 0..n /\ m \in 0..m
    OBVIOUS
  <2>3. f[m - 1] \in Acc /\ step[<<m, f[m - 1]>>] \in Acc
    BY <2>2
  <2>4. \A k \in 0..m : k # m => k \in 0..(m - 1)
    OBVIOUS
  <2>5. g \in [0..m -> Acc]
    BY <2>3, <2>4
  <2>6. \A k \in 0..m : g[k] = IF k = 0 THEN base ELSE step[<<k, g[k - 1]>>]
    <3> TAKE k \in 0..m
    <3>1. CASE k = m
      <4>1. k # 0 /\ m - 1 \in 0..m /\ m - 1 # m
        BY <2>2, <3>1
      <4>2. g[m - 1] = f[m - 1] /\ g[k] = step[<<m, f[m - 1]>>]
        BY <2>2, <3>1, <4>1
      <4> QED  BY <3>1, <4>1, <4>2
    <3>2. CASE k # m
      <4>1. k \in 0..(m - 1) /\ g[k] = f[k]
        BY <2>4, <3>2
      <4>2. f[k] = IF k = 0 THEN base ELSE step[<<k, f[k - 1]>>]
        BY <2>1, <4>1 DEF Steps
      <4>3. k # 0 => k - 1 \in 0..m /\ k - 1 # m
        BY <4>1
      <4> QED  BY <4>1, <4>2, <4>3
    <3> QED  BY <3>1, <3>2
  <2>7. g = [k \in 0..m |-> g[k]]
    OBVIOUS
  <2> HIDE DEF g
  <2>8. Steps(g, m, base, step)
    BY <2>6, <2>7 DEF Steps
  <2> QED  BY <2>2, <2>5, <2>8 DEF Stepped
<1>3. n \in T
  <2> HIDE DEF T
  <2> QED  BY <1>1, <1>2, UpTo
<1> QED  BY <1>3
---------------------------------------------------------------------------
(* The messages that end in some bytes.                                    *)

CommandNumbers == UNION {DOMAIN line : line \in CommandLines}
ByteSet == CommandNumbers \X (1..MaxMessages) \X (Nat \ {0})
MessageOf(b) == <<b[1], b[2]>>

LEMMA ByteHas ==
    ASSUME NEW b \in ByteSet
    PROVE  /\ b = <<b[1], b[2], b[3]>>
           /\ b[1] \in CommandNumbers /\ b[2] \in 1..MaxMessages /\ b[3] \in Nat \ {0}
           /\ MessageOf(b) \in Messages /\ BodySize[b[2]] \in Nat
  BY SizesAssumption DEF ByteSet, MessageOf, Messages, CommandNumbers

\* f reads s from the left.
Reads(f, s) ==
    /\ f \in [0..Len(s) -> Seq(Messages)] /\ f[0] = <<>>
    /\ \A k \in 1..Len(s) :
         f[k] = IF EndsMessage(s[k]) THEN Append(f[k - 1], MessageOf(s[k])) ELSE f[k - 1]

LEMMA ReadFromTheLeft ==
    ASSUME NEW s \in Seq(ByteSet)
    PROVE  \E f : Reads(f, s) /\ MessagesIn(s) = f[Len(s)]
<1> DEFINE n == Len(s)
           Acc == Seq(Messages)
           Value(k, before) == IF EndsMessage(s[k]) THEN Append(before, MessageOf(s[k])) ELSE before
           step == [p \in (1..n) \X Acc |-> Value(p[1], p[2])]
           Body(f) == [k \in 0..n |-> IF k = 0 THEN <<>>
                                      ELSE IF EndsMessage(s[k]) THEN Append(f[k - 1], <<s[k][1], s[k][2]>>)
                                      ELSE f[k - 1]]
           found == CHOOSE f : f = Body(f)
<1>1. n \in Nat /\ <<>> \in Acc /\ \A k \in 1..n : s[k] \in ByteSet
  BY EmptySeq, LenProperties, ElementOfSeq
<1>2. \A k \in 1..n, before \in Acc : Value(k, before) \in Acc
  <2> TAKE k \in 1..n, before \in Acc
  <2>1. MessageOf(s[k]) \in Messages
    BY <1>1, ByteHas
  <2> HIDE DEF n
  <2> QED  BY <2>1, AppendProperties
<1>3. step \in [(1..n) \X Acc -> Acc]
  BY <1>2
<1>4. \A k \in 1..n, before \in Acc : step[<<k, before>>] = Value(k, before)
  OBVIOUS
<1>5. Stepped(n, Acc, <<>>, step)
  <2> HIDE DEF n, Acc, step
  <2> QED  BY <1>1, <1>3, StepsExist
<1>6. PICK f \in [0..n -> Acc] : Steps(f, n, <<>>, step)
  BY <1>5 DEF Stepped
<1>7. f = [k \in 0..n |-> IF k = 0 THEN <<>> ELSE step[<<k, f[k - 1]>>]]
  BY <1>6 DEF Steps
<1>8. \A k \in 1..n : step[<<k, f[k - 1]>>] = Value(k, f[k - 1])
  <2> TAKE k \in 1..n
  <2>1. k - 1 \in 0..n
    BY <1>1
  <2>2. f[k - 1] \in Acc
    BY <1>6, <2>1
  <2> HIDE DEF step, Acc, Value
  <2> QED  BY <1>4, <2>2
<1>9. f = Body(f)
  <2>1. \A k \in 0..n : k # 0 => k \in 1..n
    BY <1>1
  <2>2. \A k \in 0..n : k # 0 => step[<<k, f[k - 1]>>] =
            IF EndsMessage(s[k]) THEN Append(f[k - 1], <<s[k][1], s[k][2]>>) ELSE f[k - 1]
    BY <1>8, <2>1 DEF MessageOf
  <2> HIDE DEF step, Acc, Value, n
  <2> QED  BY <1>7, <2>2
<1>10. found = Body(found)
  <2> HIDE DEF Body
  <2> QED  BY <1>9
<1>11. MessagesIn(s) = found[n]
  BY DEF MessagesIn
<1> HIDE DEF found
<1>12. found[0] = <<>>
  BY <1>1, <1>10
<1>13. \A k \in 1..n : found[k] = Value(k, found[k - 1])
  <2> TAKE k \in 1..n
  <2>1. k \in 0..n /\ k # 0
    BY <1>1
  <2>2. found[k] = Body(found)[k]
    BY <1>10
  <2> QED  BY <2>1, <2>2 DEF MessageOf
<1>14. \A k \in 0..n : found[k] \in Acc
  <2> DEFINE T == {k \in 0..n : found[k] \in Acc}
  <2>1. 0 \in T
    <3> HIDE DEF Acc, n
    <3> QED  BY <1>1, <1>12
  <2>2. \A k \in 1..n : k - 1 \in T => k \in T
    <3> HIDE DEF Acc, Value, n
    <3> QED  BY <1>2, <1>13
  <2>3. \A k \in 0..n : k \in T
    <3> HIDE DEF T
    <3> QED  BY <1>1, <2>1, <2>2, UpTo
  <2> QED  BY <2>3
<1>15. found = [k \in 0..n |-> found[k]]
  BY <1>10
<1>16. found \in [0..n -> Acc]
  <2> HIDE DEF n, Acc
  <2> QED  BY <1>14, <1>15
<1>17. Reads(found, s)
  BY <1>12, <1>13, <1>16 DEF Reads
<1> QED  BY <1>11, <1>17

\* Bytes that end no message.
LEMMA NoMessages ==
    ASSUME NEW s \in Seq(ByteSet), \A k \in 1..Len(s) : ~EndsMessage(s[k])
    PROVE  MessagesIn(s) = <<>>
<1>1. PICK f : Reads(f, s) /\ MessagesIn(s) = f[Len(s)]
  BY ReadFromTheLeft
<1>2. Len(s) \in Nat
  BY LenProperties
<1> DEFINE T == {k \in 0..Len(s) : f[k] = <<>>}
<1>3. 0 \in T
  BY <1>1, <1>2 DEF Reads
<1>4. \A k \in 1..Len(s) : k - 1 \in T => k \in T
  BY <1>1 DEF Reads
<1>5. \A k \in 0..Len(s) : k \in T
  <2> HIDE DEF T
  <2> QED  BY <1>2, <1>3, <1>4, UpTo
<1> QED  BY <1>1, <1>2, <1>5

\* Bytes of which the last one ends a message, and no other does.
LEMMA OneMessage ==
    ASSUME NEW s \in Seq(ByteSet), Len(s) # 0, EndsMessage(s[Len(s)]),
           \A k \in 1..(Len(s) - 1) : ~EndsMessage(s[k])
    PROVE  MessagesIn(s) = <<MessageOf(s[Len(s)])>>
<1>1. PICK f : Reads(f, s) /\ MessagesIn(s) = f[Len(s)]
  BY ReadFromTheLeft
<1>2. Len(s) \in Nat /\ Len(s) - 1 \in Nat
  BY LenProperties
<1> DEFINE T == {k \in 0..(Len(s) - 1) : f[k] = <<>>}
<1>3. 0 \in T
  BY <1>1, <1>2 DEF Reads
<1>4. \A k \in 1..(Len(s) - 1) : k - 1 \in T => k \in T
  <2> TAKE k \in 1..(Len(s) - 1)
  <2>1. k \in 1..Len(s)
    BY <1>2
  <2> QED  BY <1>1, <2>1 DEF Reads
<1>5. \A k \in 0..(Len(s) - 1) : k \in T
  <2> HIDE DEF T
  <2> QED  BY <1>2, <1>3, <1>4, UpTo
<1>6. f[Len(s) - 1] = <<>>
  BY <1>2, <1>5
<1>7. f[Len(s)] = Append(<<>>, MessageOf(s[Len(s)]))
  <2>1. Len(s) \in 1..Len(s)
    BY <1>2
  <2> QED  BY <1>1, <1>6, <2>1 DEF Reads
<1> QED  BY <1>1, <1>7

\* What was read so far goes on with what is read next.
LEMMA MessagesInBoth ==
    ASSUME NEW s \in Seq(ByteSet), NEW t \in Seq(ByteSet)
    PROVE  MessagesIn(s \o t) = MessagesIn(s) \o MessagesIn(t)
<1> DEFINE u == s \o t
<1>1. /\ u \in Seq(ByteSet) /\ Len(u) = Len(s) + Len(t)
      /\ \A k \in 1..(Len(s) + Len(t)) : u[k] = IF k <= Len(s) THEN s[k] ELSE t[k - Len(s)]
  BY ConcatProperties
<1>2. Len(s) \in Nat /\ Len(t) \in Nat
  BY LenProperties
<1> HIDE DEF u
<1>3. PICK f : Reads(f, u) /\ MessagesIn(u) = f[Len(u)]
  BY <1>1, ReadFromTheLeft
<1>4. PICK g : Reads(g, s) /\ MessagesIn(s) = g[Len(s)]
  BY ReadFromTheLeft
<1>5. PICK h : Reads(h, t) /\ MessagesIn(t) = h[Len(t)]
  BY ReadFromTheLeft
<1>6. \A k \in 0..Len(s) : f[k] = g[k]
  <2> DEFINE T == {k \in 0..Len(s) : f[k] = g[k]}
  <2>1. 0 \in T
    BY <1>2, <1>3, <1>4 DEF Reads
  <2>2. \A k \in 1..Len(s) : k - 1 \in T => k \in T
    <3> TAKE k \in 1..Len(s)
    <3>1. k \in 1..Len(u) /\ u[k] = s[k] /\ k \in 0..Len(s)
      BY <1>1, <1>2
    <3> QED  BY <1>3, <1>4, <3>1 DEF Reads
  <2>3. \A k \in 0..Len(s) : k \in T
    <3> HIDE DEF T
    <3> QED  BY <1>2, <2>1, <2>2, UpTo
  <2> QED  BY <2>3
<1>7. g[Len(s)] \in Seq(Messages) /\ \A k \in 0..Len(t) : h[k] \in Seq(Messages)
  BY <1>2, <1>4, <1>5 DEF Reads
<1>8. \A k \in 0..Len(t) : f[Len(s) + k] = g[Len(s)] \o h[k]
  <2> DEFINE T == {k \in 0..Len(t) : f[Len(s) + k] = g[Len(s)] \o h[k]}
  <2>1. 0 \in T
    <3>1. f[Len(s) + 0] = g[Len(s)]
      BY <1>2, <1>6
    <3>2. h[0] = <<>>
      BY <1>5 DEF Reads
    <3>3. g[Len(s)] \o <<>> = g[Len(s)]
      BY <1>7, ConcatEmptySeq
    <3>4. f[Len(s) + 0] = g[Len(s)] \o h[0]
      BY <3>1, <3>2, <3>3
    <3>5. 0 \in 0..Len(t)
      BY <1>2
    <3> QED  BY <3>4, <3>5
  <2>2. \A k \in 1..Len(t) : k - 1 \in T => k \in T
    <3> SUFFICES ASSUME NEW k \in 1..Len(t), k - 1 \in T PROVE k \in T
      OBVIOUS
    <3>1. /\ Len(s) + k \in 1..Len(u) /\ u[Len(s) + k] = t[k]
          /\ (Len(s) + k) - 1 = Len(s) + (k - 1) /\ k - 1 \in 0..Len(t) /\ k \in 0..Len(t)
      <4>1. Len(s) + k \in 1..(Len(s) + Len(t)) /\ ~(Len(s) + k <= Len(s)) /\ (Len(s) + k) - Len(s) = k
        BY <1>2
      <4>2. u[Len(s) + k] = t[k]
        BY <1>1, <4>1
      <4> QED  BY <1>1, <1>2, <4>1, <4>2
    <3>2. f[(Len(s) + k) - 1] = g[Len(s)] \o h[k - 1]
      BY <3>1
    <3>3. MessageOf(t[k]) \in Messages
      BY ElementOfSeq, ByteHas
    <3>4. h[k - 1] \in Seq(Messages)
      BY <1>7, <3>1
    <3>5. CASE EndsMessage(t[k])
      <4>1. f[Len(s) + k] = Append(f[(Len(s) + k) - 1], MessageOf(t[k]))
        BY <1>3, <3>1, <3>5 DEF Reads
      <4>2. h[k] = Append(h[k - 1], MessageOf(t[k]))
        BY <1>5, <3>5 DEF Reads
      <4>3. Append(g[Len(s)] \o h[k - 1], MessageOf(t[k])) = g[Len(s)] \o Append(h[k - 1], MessageOf(t[k]))
        <5> DEFINE before == g[Len(s)]
                   sofar  == h[k - 1]
                   m      == MessageOf(t[k])
        <5>1. before \in Seq(Messages) /\ sofar \in Seq(Messages) /\ m \in Messages
          BY <1>7, <3>3, <3>4
        <5> HIDE DEF before, sofar, m
        <5>2. Append(before \o sofar, m) = before \o Append(sofar, m)
          <6> DEFINE both == before \o sofar
                     one  == <<m>>
          <6>1. one \in Seq(Messages) /\ both \in Seq(Messages)
            BY <5>1, ConcatProperties
          <6>2. both \o one = before \o (sofar \o one)
            <7> HIDE DEF one
            <7> QED  BY <5>1, <6>1, ConcatAssociative, SMTT(30)
          <6> HIDE DEF both
          <6>3. Append(both, m) = both \o one /\ Append(sofar, m) = sofar \o one
            BY <5>1, <6>1, AppendIsConcat
          <6> HIDE DEF one
          <6>4. Append(both, m) = before \o Append(sofar, m)
            BY <6>2, <6>3
          <6> QED  BY <6>4 DEF both
        <5> QED  BY <5>2 DEF before, sofar, m
      <4> QED  BY <3>1, <3>2, <4>1, <4>2, <4>3
    <3>6. CASE ~EndsMessage(t[k])
      <4>1. f[Len(s) + k] = f[(Len(s) + k) - 1] /\ h[k] = h[k - 1]
        BY <1>3, <1>5, <3>1, <3>6 DEF Reads
      <4> QED  BY <3>1, <3>2, <4>1
    <3> QED  BY <3>5, <3>6
  <2>3. \A k \in 0..Len(t) : k \in T
    <3> HIDE DEF T
    <3> QED  BY <1>2, <2>1, <2>2, UpTo
  <2> QED  BY <2>3
<1>9. f[Len(u)] = g[Len(s)] \o h[Len(t)]
  <2>1. Len(t) \in 0..Len(t)
    BY <1>2
  <2> QED  BY <1>1, <1>8, <2>1
<1> QED  BY <1>3, <1>4, <1>5, <1>9 DEF u

LEMMA MessagesAreMessages ==
    ASSUME NEW s \in Seq(ByteSet)
    PROVE  MessagesIn(s) \in Seq(Messages)
<1>1. PICK f : Reads(f, s) /\ MessagesIn(s) = f[Len(s)]
  BY ReadFromTheLeft
<1> QED  BY <1>1, LenProperties DEF Reads

---------------------------------------------------------------------------
(* Whole messages, and what is left of them.                               *)

Size(nr) == HeaderSize + BodySize[nr]

\* A byte is followed by the next of its message, the last one by a first one.
Follows(b, next) == IF b[3] < Size(b[2]) THEN next = <<b[1], b[2], b[3] + 1>> ELSE next[3] = 1
Framed(s) ==
    /\ \A k \in 1..Len(s) : s[k][3] <= Size(s[k][2])
    /\ \A k \in 1..(Len(s) - 1) : Follows(s[k], s[k + 1])

\* rc, which waits for a body of n bytes, is at the right place of s; s has
\* the end of its last message.
StartsRight(s, n) ==
    s # <<>> => IF n = 0 THEN s[1][3] = 1 ELSE s[1][3] = HeaderSize + 1 /\ n = BodySize[s[1][2]]
EndsWhole(s, n) ==
    IF s = <<>> THEN n = 0 ELSE s[Len(s)][3] = Size(s[Len(s)][2])

Whole(s) == s \in Seq(ByteSet) /\ Framed(s) /\ StartsRight(s, 0) /\ EndsWhole(s, 0)

LEMMA SizeIsPositive ==
    ASSUME NEW nr \in 1..MaxMessages
    PROVE  Size(nr) \in Nat \ {0} /\ BodySize[nr] \in Nat /\ HeaderSize <= Size(nr)
  BY SizesAssumption DEF Size

LEMMA NothingIsWhole == Whole(<<>>)
  BY EmptySeq DEF Whole, Framed, StartsRight, EndsWhole

LEMMA BytesAreWhole ==
    ASSUME NEW i \in CommandNumbers, NEW nr \in 1..MaxMessages
    PROVE  /\ Whole(Bytes(i, nr)) /\ Len(Bytes(i, nr)) = Size(nr)
           /\ MessagesIn(Bytes(i, nr)) = IF BodySize[nr] > 0 THEN <<<<i, nr>>>> ELSE <<>>
<1> DEFINE s == Bytes(i, nr)
           n == Size(nr)
<1>1. n \in Nat \ {0} /\ BodySize[nr] \in Nat /\ HeaderSize \in Nat /\ n = HeaderSize + BodySize[nr]
  BY SizeIsPositive, SizesAssumption DEF Size
<1>2. s = [at \in 1..n |-> <<i, nr, at>>]
  BY DEF Bytes, Size
<1>3. s \in [1..n -> ByteSet]
  <2>1. \A at \in 1..n : <<i, nr, at>> \in ByteSet
    BY <1>1 DEF ByteSet
  <2> QED  BY <1>2, <2>1
<1>4. s \in Seq(ByteSet) /\ Len(s) = n
  <2> HIDE DEF s, n
  <2>1. s \in Seq(ByteSet)
    BY <1>1, <1>3, SeqDef
  <2>2. DOMAIN s = 1..n /\ DOMAIN s = 1..Len(s) /\ Len(s) \in Nat
    BY <1>3, <2>1, LenProperties
  <2> QED  BY <1>1, <2>1, <2>2
<1>5. \A k \in 1..n : s[k] = <<i, nr, k>>
  BY <1>2
<1> HIDE DEF s, n
<1>6. \A k \in 1..n : s[k][1] = i /\ s[k][2] = nr /\ s[k][3] = k
  BY <1>5
<1>7. s # <<>> /\ 1 \in 1..n /\ n \in 1..n
  BY <1>1, <1>4, EmptySeq
<1>8. Framed(s)
  <2>1. \A k \in 1..(n - 1) : k \in 1..n /\ k + 1 \in 1..n /\ k < n
    BY <1>1
  <2>2. \A k \in 1..n : s[k][3] <= Size(s[k][2])
    BY <1>1, <1>6 DEF n
  <2>3. \A k \in 1..(n - 1) : Follows(s[k], s[k + 1])
    <3> TAKE k \in 1..(n - 1)
    <3>1. s[k][3] < Size(s[k][2])
      BY <1>6, <2>1 DEF n
    <3>2. s[k + 1] = <<i, nr, k + 1>> /\ s[k][1] = i /\ s[k][2] = nr /\ s[k][3] = k
      BY <1>5, <1>6, <2>1
    <3> QED  BY <3>1, <3>2 DEF Follows
  <2> QED  BY <1>4, <2>2, <2>3 DEF Framed
<1>9. StartsRight(s, 0) /\ EndsWhole(s, 0)
  BY <1>4, <1>6, <1>7 DEF StartsRight, EndsWhole, n
<1>10. CASE BodySize[nr] > 0
  <2>1. EndsMessage(s[n]) /\ MessageOf(s[n]) = <<i, nr>>
    BY <1>1, <1>6, <1>7, <1>10 DEF EndsMessage, MessageOf
  <2>2. \A k \in 1..(n - 1) : ~EndsMessage(s[k])
    BY <1>1, <1>6 DEF EndsMessage
  <2>3. MessagesIn(s) = <<<<i, nr>>>>
    BY <1>1, <1>4, <2>1, <2>2, OneMessage
  <2> QED  BY <1>4, <1>8, <1>9, <1>10, <2>3 DEF Whole, s, n
<1>11. CASE ~(BodySize[nr] > 0)
  <2>1. \A k \in 1..n : ~EndsMessage(s[k])
    BY <1>6, <1>11 DEF EndsMessage
  <2>2. MessagesIn(s) = <<>>
    BY <1>4, <2>1, NoMessages
  <2> QED  BY <1>4, <1>8, <1>9, <1>11, <2>2 DEF Whole, s, n
<1> QED  BY <1>10, <1>11

\* Whole messages behind what ends with a whole message.
LEMMA FramesGoOn ==
    ASSUME NEW s \in Seq(ByteSet), NEW t, NEW n \in Nat,
           Framed(s), StartsRight(s, n), EndsWhole(s, n), Whole(t)
    PROVE  /\ s \o t \in Seq(ByteSet)
           /\ Framed(s \o t) /\ StartsRight(s \o t, n) /\ EndsWhole(s \o t, n)
<1> DEFINE u == s \o t
<1>1. /\ t \in Seq(ByteSet) /\ Framed(t) /\ StartsRight(t, 0) /\ EndsWhole(t, 0)
  BY DEF Whole
<1>2. /\ u \in Seq(ByteSet) /\ Len(u) = Len(s) + Len(t)
      /\ \A k \in 1..(Len(s) + Len(t)) : u[k] = IF k <= Len(s) THEN s[k] ELSE t[k - Len(s)]
  BY <1>1, ConcatProperties
<1>3. Len(s) \in Nat /\ Len(t) \in Nat /\ Len(u) \in Nat
  BY <1>1, <1>2, LenProperties
<1>4. CASE s = <<>>
  <2>1. u = t /\ n = 0
    BY <1>1, <1>4, ConcatEmptySeq DEF EndsWhole
  <2> QED  BY <1>1, <2>1
<1>5. CASE t = <<>>
  <2>1. u = s
    BY <1>5, ConcatEmptySeq
  <2> QED  BY <2>1
<1>6. CASE s # <<>> /\ t # <<>>
  <2>1. Len(s) # 0 /\ Len(t) # 0
    BY <1>1, <1>6, EmptySeq
  <2> HIDE DEF u
  <2>2. /\ \A k \in 1..Len(s) : u[k] = s[k]
        /\ \A k \in 1..Len(t) : u[Len(s) + k] = t[k]
    <3>1. \A k \in 1..Len(s) : k \in 1..(Len(s) + Len(t)) /\ k <= Len(s)
      BY <1>3
    <3>2. \A k \in 1..Len(t) : /\ Len(s) + k \in 1..(Len(s) + Len(t)) /\ ~(Len(s) + k <= Len(s))
                               /\ (Len(s) + k) - Len(s) = k
      BY <1>3
    <3> QED  BY <1>2, <3>1, <3>2
  <2>3. \A k \in 1..Len(u) : k \in 1..Len(s) \/ \E m \in 1..Len(t) : k = Len(s) + m
    <3> TAKE k \in 1..Len(u)
    <3>1. CASE k <= Len(s)
      BY <1>3, <3>1
    <3>2. CASE ~(k <= Len(s))
      <4>1. k - Len(s) \in 1..Len(t) /\ k = Len(s) + (k - Len(s))
        BY <1>2, <1>3, <3>2
      <4> QED  BY <4>1
    <3> QED  BY <3>1, <3>2
  <2>4. \A k \in 1..Len(u) : u[k][3] <= Size(u[k][2])
    BY <1>1, <2>2, <2>3 DEF Framed
  <2>5. \A k \in 1..(Len(u) - 1) : Follows(u[k], u[k + 1])
    <3> TAKE k \in 1..(Len(u) - 1)
    <3>1. CASE k < Len(s)
      <4>1. k \in 1..(Len(s) - 1) /\ k \in 1..Len(s) /\ k + 1 \in 1..Len(s)
        BY <1>3, <3>1
      <4> QED  BY <2>2, <4>1 DEF Framed
    <3>2. CASE k = Len(s)
      <4>1. k \in 1..Len(s) /\ 1 \in 1..Len(t)
        BY <1>3, <2>1, <3>2
      <4>2. u[k] = s[Len(s)] /\ u[k + 1] = t[1]
        BY <2>2, <3>2, <4>1
      <4>3. s[Len(s)][3] = Size(s[Len(s)][2]) /\ t[1][3] = 1
        BY <1>1, <1>6 DEF EndsWhole, StartsRight
      <4>4. s[Len(s)] \in ByteSet
        BY <3>2, <4>1, ElementOfSeq
      <4>5. ~(s[Len(s)][3] < Size(s[Len(s)][2]))
        BY <4>3, <4>4, ByteHas
      <4> QED  BY <4>2, <4>3, <4>5 DEF Follows
    <3>3. CASE k > Len(s)
      <4> DEFINE m == k - Len(s)
      <4>1. /\ m \in 1..(Len(t) - 1) /\ m \in 1..Len(t) /\ m + 1 \in 1..Len(t)
            /\ k = Len(s) + m /\ k + 1 = Len(s) + (m + 1)
        BY <1>2, <1>3, <3>3
      <4> HIDE DEF m
      <4>2. u[k] = t[m] /\ u[k + 1] = t[m + 1]
        BY <2>2, <4>1
      <4> QED  BY <1>1, <4>1, <4>2 DEF Framed
    <3> QED  BY <1>2, <1>3, <3>1, <3>2, <3>3
  <2>6. Framed(u)
    BY <2>4, <2>5 DEF Framed
  <2>7. u[1] = s[1] /\ u[Len(u)] = t[Len(t)] /\ u # <<>>
    <3>1. 1 \in 1..Len(s) /\ Len(t) \in 1..Len(t) /\ Len(u) = Len(s) + Len(t) /\ Len(u) # 0
      BY <1>2, <1>3, <2>1
    <3> QED  BY <2>2, <3>1, EmptySeq
  <2>8. StartsRight(u, n) /\ EndsWhole(u, n)
    BY <1>1, <1>6, <2>7 DEF StartsRight, EndsWhole
  <2> QED  BY <1>2, <2>6, <2>8 DEF u
<1> QED  BY <1>4, <1>5, <1>6

LEMMA WholeGoesOn ==
    ASSUME NEW s, NEW t, Whole(s), Whole(t)
    PROVE  Whole(s \o t)
  BY FramesGoOn DEF Whole

\* A sequence in two pieces.
LEMMA TwoPieces ==
    ASSUME NEW S, NEW s \in Seq(S), NEW p \in 0..Len(s)
    PROVE  /\ SubSeq(s, 1, p) \in Seq(S) /\ Len(SubSeq(s, 1, p)) = p
           /\ \A k \in 1..p : SubSeq(s, 1, p)[k] = s[k]
           /\ SubSeq(s, p + 1, Len(s)) \in Seq(S) /\ Len(SubSeq(s, p + 1, Len(s))) = Len(s) - p
           /\ \A k \in 1..(Len(s) - p) : SubSeq(s, p + 1, Len(s))[k] = s[p + k]
           /\ SubSeq(s, 1, p) \o SubSeq(s, p + 1, Len(s)) = s
<1>1. Len(s) \in Nat /\ p \in Nat /\ p <= Len(s) /\ \A k \in 1..Len(s) : s[k] \in S
  BY LenProperties, ElementOfSeq
<1>2. \A k \in 1..p : s[k] \in S
  BY <1>1
<1>3. \A k \in (p + 1)..Len(s) : s[k] \in S
  BY <1>1
<1> DEFINE a == SubSeq(s, 1, p)
           b == SubSeq(s, p + 1, Len(s))
<1>4. a \in Seq(S) /\ Len(a) = p /\ \A k \in 1..p : a[k] = s[k]
  <2>1. /\ a \in Seq(S) /\ Len(a) = IF 1 <= p THEN p - 1 + 1 ELSE 0
        /\ \A k \in 1..(p - 1 + 1) : a[k] = s[1 + k - 1]
    BY <1>1, <1>2, SubSeqProperties
  <2> HIDE DEF a
  <2>2. Len(a) = p
    BY <1>1, <2>1
  <2>3. \A k \in 1..p : k \in 1..(p - 1 + 1) /\ 1 + k - 1 = k
    BY <1>1
  <2> QED  BY <2>1, <2>2, <2>3
<1>5. b \in Seq(S) /\ Len(b) = Len(s) - p /\ \A k \in 1..(Len(s) - p) : b[k] = s[p + k]
  <2>1. /\ b \in Seq(S) /\ Len(b) = IF p + 1 <= Len(s) THEN Len(s) - (p + 1) + 1 ELSE 0
        /\ \A k \in 1..(Len(s) - (p + 1) + 1) : b[k] = s[(p + 1) + k - 1]
    BY <1>1, <1>3, SubSeqProperties
  <2> HIDE DEF b
  <2>2. Len(b) = Len(s) - p
    BY <1>1, <2>1
  <2>3. \A k \in 1..(Len(s) - p) : k \in 1..(Len(s) - (p + 1) + 1) /\ (p + 1) + k - 1 = p + k
    BY <1>1
  <2> QED  BY <2>1, <2>2, <2>3
<1> HIDE DEF a, b
<1>6. a \o b = s
  <2>1. /\ a \o b \in Seq(S) /\ Len(a \o b) = Len(s)
        /\ \A k \in 1..Len(s) : (a \o b)[k] = IF k <= p THEN a[k] ELSE b[k - p]
    <3>1. /\ a \o b \in Seq(S) /\ Len(a \o b) = p + (Len(s) - p)
          /\ \A k \in 1..(p + (Len(s) - p)) : (a \o b)[k] = IF k <= p THEN a[k] ELSE b[k - p]
      BY <1>4, <1>5, ConcatProperties
    <3>2. p + (Len(s) - p) = Len(s)
      BY <1>1
    <3> QED  BY <3>1, <3>2
  <2>2. \A k \in 1..Len(s) : (a \o b)[k] = s[k]
    <3> TAKE k \in 1..Len(s)
    <3>1. CASE k <= p
      BY <1>4, <2>1, <3>1
    <3>2. CASE ~(k <= p)
      <4>1. k - p \in 1..(Len(s) - p) /\ p + (k - p) = k
        BY <1>1, <3>2
      <4> QED  BY <1>5, <2>1, <3>2, <4>1
    <3> QED  BY <3>1, <3>2
  <2> QED  BY <2>1, <2>2, SeqEqual
<1> QED  BY <1>4, <1>5, <1>6 DEF a, b

\* The bytes of the message that s begins with.
LEMMA FirstBytes ==
    ASSUME NEW s \in Seq(ByteSet), Framed(s), NEW p \in 1..Len(s),
           s[1][3] + (p - 1) <= Size(s[1][2])
    PROVE  \A k \in 1..p : s[k] = <<s[1][1], s[1][2], s[1][3] + (k - 1)>>
<1>1. Len(s) \in Nat /\ 1 \in 1..Len(s) /\ p - 1 \in Nat
  BY LenProperties
<1>2. s[1] \in ByteSet
  BY <1>1, ElementOfSeq
<1>3. s[1] = <<s[1][1], s[1][2], s[1][3]>> /\ s[1][3] \in Nat /\ Size(s[1][2]) \in Nat
  BY <1>2, ByteHas, SizeIsPositive
<1> DEFINE i == s[1][1]
           nr == s[1][2]
           at == s[1][3]
           T == {k \in 0..(p - 1) : s[k + 1] = <<i, nr, at + k>>}
<1>4. 0 \in T
  <2>1. 0 \in 0..(p - 1) /\ at + 0 = at /\ s[0 + 1] = s[1]
    BY <1>1, <1>3
  <2> QED  BY <1>3, <2>1
<1>5. \A k \in 1..(p - 1) : k - 1 \in T => k \in T
  <2> SUFFICES ASSUME NEW k \in 1..(p - 1), k - 1 \in T PROVE k \in T
    OBVIOUS
  <2>1. /\ k \in 1..(Len(s) - 1) /\ k \in 0..(p - 1) /\ (k - 1) + 1 = k
        /\ at + (k - 1) < Size(nr) /\ (at + (k - 1)) + 1 = at + k
    BY <1>1, <1>3
  <2>2. s[k] = <<i, nr, at + (k - 1)>>
    BY <2>1
  <2> HIDE DEF i, nr, at, T
  <2>3. s[k][1] = i /\ s[k][2] = nr /\ s[k][3] = at + (k - 1)
    BY <2>2
  <2>4. Follows(s[k], s[k + 1])
    BY <2>1 DEF Framed
  <2>5. s[k + 1] = <<i, nr, at + k>>
    BY <2>1, <2>3, <2>4 DEF Follows
  <2> QED  BY <2>1, <2>5 DEF T
<1>6. \A k \in 0..(p - 1) : k \in T
  <2> HIDE DEF T
  <2> QED  BY <1>1, <1>4, <1>5, UpTo
<1> HIDE DEF i, nr, at
<1>7. \A k \in 1..p : s[k] = <<i, nr, at + (k - 1)>>
  <2> TAKE k \in 1..p
  <2>1. k - 1 \in 0..(p - 1) /\ (k - 1) + 1 = k
    BY <1>1
  <2>2. s[(k - 1) + 1] = <<i, nr, at + (k - 1)>>
    BY <1>6, <2>1
  <2> QED  BY <2>1, <2>2
<1> QED  BY <1>7 DEF i, nr, at

\* What is behind the first p bytes is framed as before.
Behind(s, p, r) ==
    /\ r \in Seq(ByteSet) /\ Framed(r)
    /\ r = <<>> <=> p = Len(s)
    /\ r # <<>> => p + 1 \in 1..Len(s) /\ r[1] = s[p + 1] /\ r[Len(r)] = s[Len(s)]

LEMMA FramesBehind ==
    ASSUME NEW s \in Seq(ByteSet), Framed(s), NEW p \in 0..Len(s)
    PROVE  Behind(s, p, SubSeq(s, p + 1, Len(s)))
<1> DEFINE r == SubSeq(s, p + 1, Len(s))
<1>1. Len(s) \in Nat /\ p \in Nat /\ p <= Len(s)
  BY LenProperties
<1>2. r \in Seq(ByteSet) /\ Len(r) = Len(s) - p /\ \A k \in 1..(Len(s) - p) : r[k] = s[p + k]
  BY TwoPieces
<1> HIDE DEF r
<1>3. Framed(r)
  <2>1. \A k \in 1..Len(r) : r[k][3] <= Size(r[k][2])
    <3> TAKE k \in 1..Len(r)
    <3>1. p + k \in 1..Len(s) /\ r[k] = s[p + k]
      BY <1>1, <1>2
    <3> QED  BY <3>1 DEF Framed
  <2>2. \A k \in 1..(Len(r) - 1) : Follows(r[k], r[k + 1])
    <3> TAKE k \in 1..(Len(r) - 1)
    <3>1. /\ p + k \in 1..(Len(s) - 1) /\ (p + k) + 1 = p + (k + 1)
          /\ k \in 1..(Len(s) - p) /\ k + 1 \in 1..(Len(s) - p)
      BY <1>1, <1>2
    <3>2. r[k] = s[p + k] /\ r[k + 1] = s[(p + k) + 1]
      BY <1>2, <3>1
    <3> QED  BY <3>1, <3>2 DEF Framed
  <2> QED  BY <2>1, <2>2 DEF Framed
<1>4. r = <<>> <=> p = Len(s)
  <2>1. r = <<>> <=> Len(r) = 0
    BY <1>2, EmptySeq
  <2>2. Len(r) = 0 <=> p = Len(s)
    BY <1>1, <1>2
  <2> QED  BY <2>1, <2>2
<1>5. ASSUME r # <<>>
      PROVE  p + 1 \in 1..Len(s) /\ r[1] = s[p + 1] /\ r[Len(r)] = s[Len(s)]
  <2>1. p # Len(s)
    BY <1>4, <1>5
  <2>2. p + 1 \in 1..Len(s) /\ 1 \in 1..(Len(s) - p) /\ Len(s) - p \in 1..(Len(s) - p) /\ p + (Len(s) - p) = Len(s)
    BY <1>1, <2>1
  <2> QED  BY <1>2, <2>2
<1> QED  BY <1>2, <1>3, <1>4, <1>5 DEF Behind, r

\* What is left when rc has taken p bytes.
LEMMA MessagesBehind ==
    ASSUME NEW s \in Seq(ByteSet), NEW p \in 0..Len(s)
    PROVE  /\ SubSeq(s, 1, p) \in Seq(ByteSet) /\ SubSeq(s, p + 1, Len(s)) \in Seq(ByteSet)
           /\ MessagesIn(s) = MessagesIn(SubSeq(s, 1, p)) \o MessagesIn(SubSeq(s, p + 1, Len(s)))
           /\ MessagesIn(SubSeq(s, p + 1, Len(s))) \in Seq(Messages)
<1> DEFINE a == SubSeq(s, 1, p)
           b == SubSeq(s, p + 1, Len(s))
<1>1. a \in Seq(ByteSet) /\ b \in Seq(ByteSet) /\ a \o b = s
  BY TwoPieces
<1> HIDE DEF a, b
<1>2. MessagesIn(a \o b) = MessagesIn(a) \o MessagesIn(b)
  BY <1>1, MessagesInBoth
<1> QED  BY <1>1, <1>2, MessagesAreMessages DEF a, b

\* rc takes a header.
LEMMA HeaderTaken ==
    ASSUME NEW s \in Seq(ByteSet), Framed(s), StartsRight(s, 0), HeaderSize <= Len(s),
           NEW r, r = SubSeq(s, HeaderSize + 1, Len(s)), NEW n, n = BodySize[s[1][2]]
    PROVE  /\ s[1] \in ByteSet /\ s[1][3] = 1 /\ n \in Nat
           /\ r \in Seq(ByteSet) /\ Framed(r) /\ StartsRight(r, n)
           /\ EndsWhole(s, 0) => EndsWhole(r, n)
           /\ MessagesIn(r) = MessagesIn(s)
<1> DEFINE p == HeaderSize
           nr == s[1][2]
           i == s[1][1]
<1>1. Len(s) \in Nat /\ p \in 1..Len(s) /\ p \in 0..Len(s) /\ 1 \in 1..Len(s) /\ s # <<>> /\ p \in Nat
  BY LenProperties, SizesAssumption, EmptySeq
<1>2. s[1] \in ByteSet /\ s[1][3] = 1 /\ nr \in 1..MaxMessages
  BY <1>1, ElementOfSeq, ByteHas DEF StartsRight
<1>3. Size(nr) \in Nat /\ n \in Nat /\ Size(nr) = p + n
  BY <1>2, SizeIsPositive, SizesAssumption DEF Size
<1>4. \A k \in 1..p : s[k] = <<i, nr, k>>
  <2>1. s[1][3] + (p - 1) <= Size(s[1][2])
    BY <1>1, <1>2, <1>3
  <2>2. \A k \in 1..p : s[k] = <<s[1][1], s[1][2], s[1][3] + (k - 1)>>
    BY <1>1, <2>1, FirstBytes
  <2>3. \A k \in 1..p : s[1][3] + (k - 1) = k
    BY <1>1, <1>2
  <2> QED  BY <2>2, <2>3
<1> HIDE DEF i, nr, p
<1>5. \A k \in 1..p : s[k][1] = i /\ s[k][2] = nr /\ s[k][3] = k
  BY <1>4
<1>6. r = SubSeq(s, p + 1, Len(s))
  BY DEF p
<1>7. /\ r \in Seq(ByteSet) /\ Framed(r) /\ (r = <<>> <=> p = Len(s))
      /\ r # <<>> => p + 1 \in 1..Len(s) /\ r[1] = s[p + 1] /\ r[Len(r)] = s[Len(s)]
  <2>1. Behind(s, p, SubSeq(s, p + 1, Len(s)))
    BY <1>1, FramesBehind
  <2> QED  BY <1>6, <2>1 DEF Behind
<1>8. StartsRight(r, n)
  <2> SUFFICES ASSUME r # <<>> PROVE StartsRight(r, n)
    BY DEF StartsRight
  <2>1. p \in 1..(Len(s) - 1) /\ p \in 1..p
    <3>1. p # Len(s) /\ p \in 1..Len(s) /\ Len(s) \in Nat
      BY <1>1, <1>7
    <3> QED  BY <3>1
  <2>2. Follows(s[p], s[p + 1])
    BY <2>1 DEF Framed
  <2>3. s[p][1] = i /\ s[p][2] = nr /\ s[p][3] = p
    BY <1>5, <2>1
  <2>4. CASE n = 0
    <3>1. ~(p < Size(nr))
      BY <1>1, <1>3, <2>4
    <3> QED  BY <1>7, <2>2, <2>3, <2>4, <3>1 DEF Follows, StartsRight
  <2>5. CASE n # 0
    <3>1. p < Size(nr)
      BY <1>1, <1>3, <2>5
    <3>2. s[p + 1] = <<i, nr, p + 1>>
      BY <2>2, <2>3, <3>1 DEF Follows
    <3>3. r[1] = <<i, nr, p + 1>>
      BY <1>7, <3>2
    <3>4. r[1][2] = nr /\ r[1][3] = p + 1
      <4> DEFINE b == r[1]
      <4>1. b = <<i, nr, p + 1>>
        BY <3>3
      <4> HIDE DEF b
      <4>2. b[2] = nr /\ b[3] = p + 1
        BY <4>1
      <4> QED  BY <4>2 DEF b
    <3> QED  BY <2>5, <3>4 DEF StartsRight, p, nr
  <2> QED  BY <2>4, <2>5
<1>9. ASSUME EndsWhole(s, 0) PROVE EndsWhole(r, n)
  <2>1. s[Len(s)][3] = Size(s[Len(s)][2])
    BY <1>1, <1>9 DEF EndsWhole
  <2>2. CASE r # <<>>
    BY <1>7, <2>1, <2>2 DEF EndsWhole
  <2>3. CASE r = <<>>
    <3>1. p = Len(s) /\ p \in 1..p
      BY <1>1, <1>7, <2>3
    <3>2. p = Size(nr)
      BY <1>5, <2>1, <3>1
    <3>3. n = 0
      <4>1. p \in Nat /\ n \in Nat /\ p = p + n
        BY <1>1, <1>3, <3>2
      <4> HIDE DEF p
      <4> QED  BY <4>1
    <3> QED  BY <2>3, <3>3 DEF EndsWhole
  <2> QED  BY <2>2, <2>3
<1>10. MessagesIn(r) = MessagesIn(s)
  <2> DEFINE a == SubSeq(s, 1, p)
  <2>1. a \in Seq(ByteSet) /\ MessagesIn(s) = MessagesIn(a) \o MessagesIn(r) /\ MessagesIn(r) \in Seq(Messages)
    BY <1>1, <1>6, MessagesBehind
  <2>2. Len(a) = p /\ \A k \in 1..p : a[k] = s[k]
    BY <1>1, TwoPieces
  <2> HIDE DEF a
  <2>3. \A k \in 1..Len(a) : ~EndsMessage(a[k])
    <3> TAKE k \in 1..Len(a)
    <3>1. k \in 1..p /\ a[k][2] = nr /\ a[k][3] = k /\ k <= p
      BY <1>1, <1>5, <2>2
    <3>2. BodySize[nr] = n /\ HeaderSize = p
      BY DEF nr, p
    <3>3. BodySize[nr] > 0 => k # HeaderSize + BodySize[nr]
      BY <1>1, <1>3, <3>1, <3>2
    <3> QED  BY <3>1, <3>3 DEF EndsMessage
  <2>4. MessagesIn(a) = <<>>
    BY <2>1, <2>3, NoMessages
  <2> QED  BY <2>1, <2>4, ConcatEmptySeq
<1> QED  BY <1>2, <1>3, <1>7, <1>8, <1>9, <1>10

\* rc takes a body.
LEMMA BodyTaken ==
    ASSUME NEW s \in Seq(ByteSet), Framed(s), NEW n \in Nat \ {0}, StartsRight(s, n), n <= Len(s),
           NEW r, r = SubSeq(s, n + 1, Len(s))
    PROVE  /\ s[1] \in ByteSet /\ r \in Seq(ByteSet) /\ Framed(r) /\ StartsRight(r, 0)
           /\ EndsWhole(s, n) => EndsWhole(r, 0)
           /\ MessagesIn(s) = <<MessageOf(s[1])>> \o MessagesIn(r)
           /\ MessagesIn(r) \in Seq(Messages)
<1> DEFINE nr == s[1][2]
           i == s[1][1]
<1>1. Len(s) \in Nat /\ n \in 1..Len(s) /\ n \in 0..Len(s) /\ 1 \in 1..Len(s) /\ s # <<>> /\ HeaderSize \in Nat
  BY LenProperties, SizesAssumption, EmptySeq
<1>2. s[1] \in ByteSet /\ s[1][3] = HeaderSize + 1 /\ nr \in 1..MaxMessages /\ n = BodySize[nr]
  BY <1>1, ElementOfSeq, ByteHas DEF StartsRight
<1>3. Size(nr) \in Nat /\ Size(nr) = HeaderSize + n
  BY <1>2, SizeIsPositive DEF Size
<1>4. \A k \in 1..n : s[k] = <<i, nr, HeaderSize + k>>
  <2>1. s[1][3] + (n - 1) <= Size(s[1][2])
    BY <1>1, <1>2, <1>3
  <2>2. \A k \in 1..n : s[k] = <<s[1][1], s[1][2], s[1][3] + (k - 1)>>
    BY <1>1, <2>1, FirstBytes
  <2>3. \A k \in 1..n : s[1][3] + (k - 1) = HeaderSize + k
    BY <1>1, <1>2
  <2> QED  BY <2>2, <2>3
<1>5. MessageOf(s[1]) = <<i, nr>>
  BY DEF MessageOf
<1>6. n = BodySize[nr]
  BY <1>2
<1> HIDE DEF i, nr
<1>7. \A k \in 1..n : s[k][1] = i /\ s[k][2] = nr /\ s[k][3] = HeaderSize + k
  BY <1>4
<1>8. /\ r \in Seq(ByteSet) /\ Framed(r) /\ (r = <<>> <=> n = Len(s))
      /\ r # <<>> => n + 1 \in 1..Len(s) /\ r[1] = s[n + 1] /\ r[Len(r)] = s[Len(s)]
  <2>1. Behind(s, n, SubSeq(s, n + 1, Len(s)))
    BY <1>1, FramesBehind
  <2> QED  BY <2>1 DEF Behind
<1>9. StartsRight(r, 0)
  <2> SUFFICES ASSUME r # <<>> PROVE r[1][3] = 1
    BY DEF StartsRight
  <2>1. n \in 1..(Len(s) - 1) /\ n \in 1..n
    BY <1>1, <1>8
  <2>2. Follows(s[n], s[n + 1])
    BY <2>1 DEF Framed
  <2>3. s[n][2] = nr /\ ~(s[n][3] < Size(nr))
    BY <1>1, <1>3, <1>7, <2>1
  <2> QED  BY <1>8, <2>2, <2>3 DEF Follows
<1>10. ASSUME EndsWhole(s, n) PROVE EndsWhole(r, 0)
  BY <1>1, <1>8, <1>10 DEF EndsWhole
<1> DEFINE a == SubSeq(s, 1, n)
<1>11. /\ a \in Seq(ByteSet) /\ MessagesIn(s) = MessagesIn(a) \o MessagesIn(r)
       /\ MessagesIn(r) \in Seq(Messages)
  BY <1>1, MessagesBehind
<1>12. Len(a) = n /\ \A k \in 1..n : a[k] = s[k]
  BY <1>1, TwoPieces
<1> HIDE DEF a
<1>13. \A k \in 1..(n - 1) : ~EndsMessage(a[k])
  <2> TAKE k \in 1..(n - 1)
  <2>1. k \in 1..n /\ HeaderSize + k # HeaderSize + n
    BY <1>1
  <2>2. a[k][2] = nr /\ a[k][3] = HeaderSize + k
    BY <1>7, <1>12, <2>1
  <2> QED  BY <1>6, <2>1, <2>2 DEF EndsMessage
<1>14. EndsMessage(a[n]) /\ MessageOf(a[n]) = <<i, nr>>
  <2>1. n \in 1..n /\ n > 0
    BY <1>1
  <2> QED  BY <1>6, <1>7, <1>12, <2>1 DEF EndsMessage, MessageOf
<1>15. MessagesIn(a) = <<<<i, nr>>>>
  <2>1. Len(a) # 0
    BY <1>1, <1>12
  <2> QED  BY <1>11, <1>12, <1>13, <1>14, <2>1, OneMessage
<1> QED  BY <1>2, <1>5, <1>8, <1>9, <1>10, <1>11, <1>15

\* What is too short for rc to take has no message.
LEMMA TooShort ==
    ASSUME NEW s \in Seq(ByteSet), Framed(s), NEW n \in Nat, StartsRight(s, n),
           n = 0 => Len(s) < HeaderSize, n > 0 => Len(s) < n
    PROVE  MessagesIn(s) = <<>>
<1>1. Len(s) \in Nat /\ HeaderSize \in Nat
  BY LenProperties, SizesAssumption
<1>2. CASE s = <<>>
  <2>1. \A k \in 1..Len(s) : FALSE
    BY <1>2, EmptySeq
  <2> QED  BY <2>1, NoMessages
<1>3. CASE s # <<>>
  <2> DEFINE nr == s[1][2]
             at == s[1][3]
  <2>1. Len(s) # 0 /\ Len(s) \in 1..Len(s) /\ 1 \in 1..Len(s)
    BY <1>1, <1>3, EmptySeq
  <2>2. s[1] \in ByteSet /\ nr \in 1..MaxMessages /\ at \in Nat
    BY <2>1, ElementOfSeq, ByteHas
  <2>3. Size(nr) = HeaderSize + BodySize[nr] /\ BodySize[nr] \in Nat
    BY <2>2, SizeIsPositive DEF Size
  <2>4. /\ n = 0 => at = 1
        /\ n # 0 => at = HeaderSize + 1 /\ n = BodySize[nr]
    BY <1>3 DEF StartsRight
  <2>5. at + (Len(s) - 1) < HeaderSize + BodySize[nr] /\ at + (Len(s) - 1) <= Size(nr)
    <3> DEFINE l == Len(s)
               b == BodySize[nr]
    <3>1. l \in Nat /\ HeaderSize \in Nat /\ at \in Nat /\ b \in Nat
      BY <1>1, <2>2, <2>3
    <3>2. (n = 0 /\ at = 1 /\ l < HeaderSize) \/ (n > 0 /\ at = HeaderSize + 1 /\ n = b /\ l < n)
      BY <2>4
    <3> HIDE DEF at, l, b
    <3>3. at + (l - 1) < HeaderSize + b
      BY <3>1, <3>2
    <3>4. at + (l - 1) <= HeaderSize + b
      BY <3>1, <3>3
    <3> QED  BY <2>3, <3>3, <3>4 DEF l, b
  <2>6. \A k \in 1..Len(s) : s[k] = <<s[1][1], s[1][2], s[1][3] + (k - 1)>>
    BY <2>1, <2>5, FirstBytes
  <2>7. \A k \in 1..Len(s) : s[k][2] = nr /\ s[k][3] = at + (k - 1)
    BY <2>6
  <2> HIDE DEF nr, at
  <2>8. \A k \in 1..Len(s) : at + (k - 1) # HeaderSize + BodySize[nr]
    BY <1>1, <2>2, <2>3, <2>5
  <2>9. \A k \in 1..Len(s) : ~EndsMessage(s[k])
    BY <2>7, <2>8 DEF EndsMessage
  <2> QED  BY <2>9, NoMessages
<1> QED  BY <1>2, <1>3

---------------------------------------------------------------------------
(* rdm's end of a connection.                                              *)

Types == {(QueryType @@ OtherType)[o] : o \in STRING} \cup {"Completion"}
OptionSet == [option : STRING, type : Types, silent : BOOLEAN]
Setups == [mCommands : Seq(OptionSet), mTimeout : BOOLEAN, autostart : BOOLEAN]

Links == {"none", "backlog", "open", "closed"}
Conns == [no : Nat, link : Links, unsent : Seq(ByteSet), wire : Seq(ByteSet), mPendingWrite : Nat,
          mDone : BOOLEAN, mSilent : BOOLEAN, lookups : SUBSET (Commands \X Int),
          loggers : SUBSET Commands, stream : BOOLEAN]

\* What mPendingWrite counts, and that nothing travels before rdm accepts.
Books(c) ==
    /\ Len(c.wire) <= SocketSize
    /\ c.mPendingWrite = Len(c.unsent)
    /\ c.link \in {"none", "backlog"} => c.wire = <<>> /\ c.unsent = <<>>
Settled(c) == c \in Conns /\ Books(c) /\ (c.link = "closed" => c.unsent = <<>>)

Left(c) == c.wire \o (IF c.link = "open" THEN c.unsent ELSE <<>>)

\* The connection c, after the bytes x were written to it.
Sent(c, d, x) ==
    /\ Settled(d) /\ d.no = c.no /\ d.link \in {c.link, "closed"}
    /\ Left(d) = Left(c) \o x
    /\ c.link # "open" => x = <<>> /\ d.wire = c.wire

LEMMA LeftIsSeq ==
    ASSUME NEW c \in Conns
    PROVE  Left(c) \in Seq(ByteSet) /\ Left(c) \o <<>> = Left(c)
<1>1. c.wire \in Seq(ByteSet) /\ c.unsent \in Seq(ByteSet) /\ <<>> \in Seq(ByteSet)
  BY EmptySeq DEF Conns
<1>2. Left(c) \in Seq(ByteSet)
  BY <1>1, ConcatProperties DEF Left
<1> QED  BY <1>2, ConcatEmptySeq

LEMMA writeMoreSends ==
    ASSUME NEW c \in Conns, Books(c), c.link = "open"
    PROVE  Sent(c, writeMore(c), <<>>)
<1> DEFINE W == c.wire
           V == c.unsent
           n == Min(SocketSize - Len(W), Len(V))
           gone == SubSeq(V, 1, n)
           kept == SubSeq(V, n + 1, Len(V))
           d == writeMore(c)
<1>1. /\ W \in Seq(ByteSet) /\ V \in Seq(ByteSet) /\ Len(W) <= SocketSize
      /\ c.mPendingWrite = Len(V) /\ Left(c) = W \o V
  BY DEF Conns, Books, Left
<1>2. d = IF n = 0 THEN c
          ELSE dataWritten([c EXCEPT !.wire = W \o gone, !.unsent = kept], n)
  BY DEF writeMore, Conns
<1>3. Left(c) \o <<>> = Left(c)
  BY LeftIsSeq
<1> HIDE DEF W, V
<1>4. Len(W) \in Nat /\ Len(V) \in Nat /\ SocketSize \in Nat
  BY <1>1, LenProperties, SizesAssumption
<1>5. n \in 0..Len(V) /\ n <= SocketSize - Len(W)
  BY <1>1, <1>4 DEF Min
<1> HIDE DEF n
<1>6. CASE n = 0
  <2>1. Settled(c)
    BY DEF Settled
  <2> QED  BY <1>2, <1>3, <1>6, <2>1 DEF Sent
<1>7. CASE n # 0
  <2>1. /\ gone \in Seq(ByteSet) /\ Len(gone) = n /\ kept \in Seq(ByteSet)
        /\ Len(kept) = Len(V) - n /\ gone \o kept = V
    <3>1. V \in Seq(ByteSet) /\ n \in 0..Len(V)
      BY <1>1, <1>5
    <3> QED  BY <3>1, TwoPieces, ZenonT(30)
  <2> HIDE DEF gone, kept
  <2> DEFINE wire == W \o gone
             left == c.mPendingWrite - n
             moved == [c EXCEPT !.wire = wire, !.unsent = kept]
             now == [moved EXCEPT !.mPendingWrite = left]
  <2>2. d = IF left = 0 /\ moved.mDone THEN Disconnect(now) ELSE now
    BY <1>2, <1>7 DEF dataWritten
  <2>3. left \in Nat /\ left = Len(kept)
    BY <1>1, <1>4, <1>5, <2>1
  <2>4. wire \in Seq(ByteSet) /\ Len(wire) = Len(W) + n
    <3>1. W \in Seq(ByteSet) /\ gone \in Seq(ByteSet) /\ Len(gone) = n
      BY <1>1, <2>1
    <3>2. W \o gone \in Seq(ByteSet) /\ Len(W \o gone) = Len(W) + Len(gone)
      BY <3>1, ConcatProperties
    <3> QED  BY <3>1, <3>2
  <2>5. Len(wire) <= SocketSize
    BY <1>4, <1>5, <2>4
  <2>6. wire \o kept = Left(c)
    <3>1. W \in Seq(ByteSet) /\ gone \in Seq(ByteSet) /\ kept \in Seq(ByteSet)
      BY <1>1, <2>1
    <3>2. (W \o gone) \o kept = W \o (gone \o kept)
      BY <3>1, ConcatAssociative, SMTT(30)
    <3> QED  BY <1>1, <2>1, <3>2
  <2>7. left = 0 => kept = <<>>
    BY <2>1, <2>3, EmptySeq
  <2>8. wire \o <<>> = wire
    BY <2>4, ConcatEmptySeq
  <2> HIDE DEF wire, left, d
  <2>9. /\ now \in Conns /\ now.wire = wire /\ now.unsent = kept /\ now.mPendingWrite = left
        /\ now.link = "open" /\ now.no = c.no
    BY <2>1, <2>3, <2>4 DEF Conns
  <2>10. d = now \/ (d = Disconnect(now) /\ left = 0)
    BY <2>2
  <2> HIDE DEF now
  <2>11. CASE d = now
    <3>1. Settled(d)
      BY <2>3, <2>5, <2>9, <2>11 DEF Settled, Books
    <3>2. Left(d) = Left(c)
      BY <2>6, <2>9, <2>11 DEF Left
    <3> QED  BY <1>3, <2>9, <2>11, <3>1, <3>2 DEF Sent, d
  <2>12. CASE d = Disconnect(now) /\ left = 0
    <3>1. /\ d \in Conns /\ d.wire = wire /\ d.unsent = kept /\ d.mPendingWrite = left
          /\ d.link = "closed" /\ d.no = c.no
      BY <2>9, <2>12 DEF Disconnect, Conns, Links
    <3>2. Settled(d)
      BY <2>3, <2>5, <2>7, <2>12, <3>1 DEF Settled, Books
    <3>3. Left(d) = Left(c)
      BY <2>6, <2>7, <2>8, <2>12, <3>1 DEF Left
    <3> QED  BY <1>3, <3>1, <3>2, <3>3 DEF Sent, d
  <2> QED  BY <2>10, <2>11, <2>12
<1> QED  BY <1>6, <1>7 DEF d

LEMMA SentBoth ==
    ASSUME NEW c \in Conns, NEW d, NEW e, NEW x \in Seq(ByteSet), NEW y \in Seq(ByteSet),
           Sent(c, d, x), Sent(d, e, y)
    PROVE  Sent(c, e, x \o y)
<1>1. d \in Conns /\ Left(c) \in Seq(ByteSet)
  BY LeftIsSeq DEF Sent, Settled
<1>2. Left(e) = Left(c) \o (x \o y)
  <2> DEFINE L == Left(c)
  <2>1. L \in Seq(ByteSet) /\ Left(e) = (L \o x) \o y
    BY <1>1 DEF Sent
  <2> HIDE DEF L
  <2>2. (L \o x) \o y = L \o (x \o y)
    BY <2>1, ConcatAssociative, SMTT(30)
  <2> QED  BY <2>1, <2>2 DEF L
<1>3. c.link # "open" => x \o y = <<>> /\ e.wire = c.wire
  <2> SUFFICES ASSUME c.link # "open" PROVE x \o y = <<>> /\ e.wire = c.wire
    OBVIOUS
  <2>1. x = <<>> /\ y = <<>> /\ e.wire = c.wire
    BY DEF Sent
  <2> QED  BY <2>1, ConcatEmptySeq
<1> QED  BY <1>2, <1>3 DEF Sent

LEMMA sendSends ==
    ASSUME NEW c, Settled(c), NEW i \in Commands, Commands \subseteq CommandNumbers, NEW nr \in 1..MaxMessages
    PROVE  /\ Sent(c, send(c, i, nr), IF Sends(c) THEN Bytes(i, nr) ELSE <<>>)
           /\ send(c, i, nr).link = "open" => send(c, i, nr).mSilent = c.mSilent
<1>0. c \in Conns /\ Books(c) /\ Left(c) \in Seq(ByteSet) /\ Left(c) \o <<>> = Left(c)
  BY LeftIsSeq DEF Settled
<1>1. CASE ~Sends(c)
  <2>1. send(c, i, nr) = c
    BY <1>1 DEF send
  <2> QED  BY <1>0, <1>1, <2>1 DEF Sent
<1>2. CASE Sends(c)
  <2> DEFINE data == Bytes(i, nr)
             counted == [c EXCEPT !.mPendingWrite = @ + HeaderSize + BodySize[nr]]
             full == [counted EXCEPT !.unsent = @ \o data]
  <2>1. data \in Seq(ByteSet) /\ Len(data) = Size(nr) /\ Size(nr) \in Nat
    BY BytesAreWhole, SizeIsPositive DEF Whole
  <2>2. c.link = "open" /\ c.unsent \in Seq(ByteSet) /\ c.wire \in Seq(ByteSet) /\ c.mPendingWrite \in Nat
        /\ Len(c.unsent) \in Nat
    BY <1>0, <1>2, LenProperties DEF Sends, Conns
  <2>3. send(c, i, nr) = writeMore(full)
    BY <1>2 DEF send, write
  <2>4. /\ c.unsent \o data \in Seq(ByteSet) /\ Len(c.unsent \o data) = Len(c.unsent) + Size(nr)
        /\ (c.wire \o c.unsent) \o data = c.wire \o (c.unsent \o data)
    <3> DEFINE W == c.wire
               V == c.unsent
    <3>1. W \in Seq(ByteSet) /\ V \in Seq(ByteSet)
      BY <2>2
    <3> HIDE DEF W, V, data
    <3>2. V \o data \in Seq(ByteSet) /\ Len(V \o data) = Len(V) + Size(nr)
      BY <2>1, <3>1, ConcatProperties
    <3>3. (W \o V) \o data = W \o (V \o data)
      BY <2>1, <3>1, ConcatAssociative, SMTT(30)
    <3> QED  BY <3>2, <3>3 DEF W, V
  <2>5. /\ c.mPendingWrite + HeaderSize + BodySize[nr] \in Nat
        /\ c.mPendingWrite + HeaderSize + BodySize[nr] = c.mPendingWrite + Size(nr)
    BY <2>2, SizesAssumption DEF Size
  <2> HIDE DEF data
  <2>6. /\ full \in Conns /\ full.link = "open" /\ full.no = c.no /\ full.wire = c.wire
        /\ full.unsent = c.unsent \o data /\ full.mPendingWrite = c.mPendingWrite + HeaderSize + BodySize[nr]
        /\ full.mSilent = c.mSilent
    BY <1>0, <2>2, <2>4, <2>5 DEF Conns
  <2> HIDE DEF full
  <2>7. Books(full)
    BY <1>0, <2>2, <2>4, <2>5, <2>6 DEF Books
  <2>8. Sent(full, writeMore(full), <<>>)
    BY <2>6, <2>7, writeMoreSends
  <2>9. Left(full) = Left(c) \o data
    BY <2>2, <2>4, <2>6 DEF Left
  <2>10. Left(full) \o <<>> = Left(full)
    BY <2>6, LeftIsSeq
  <2>11. Sent(c, writeMore(full), data)
    BY <2>2, <2>6, <2>8, <2>9, <2>10 DEF Sent
  <2>12. writeMore(full).mSilent = full.mSilent
    BY <2>6 DEF writeMore, dataWritten, Disconnect, Conns
  <2> QED  BY <1>2, <2>3, <2>6, <2>11, <2>12 DEF data
<1> QED  BY <1>1, <1>2

LEMMA finishSends ==
    ASSUME NEW c, Settled(c)
    PROVE  Sent(c, finish(c), <<>>) /\ Sent(c, FinishUnlessStream(c), <<>>)
<1> DEFINE done == [c EXCEPT !.mDone = TRUE]
           now == [done EXCEPT !.mPendingWrite = c.mPendingWrite - 0]
           d == finish(c)
<1>0. /\ c \in Conns /\ Books(c) /\ Left(c) \o <<>> = Left(c) /\ c.mPendingWrite \in Nat
      /\ c.unsent \in Seq(ByteSet) /\ c.mPendingWrite - 0 = c.mPendingWrite
  BY LeftIsSeq DEF Settled, Conns
<1>1. d = IF c.mPendingWrite - 0 = 0 /\ done.mDone THEN Disconnect(now) ELSE now
  BY <1>0 DEF finish, dataWritten, Conns
<1>2. /\ now \in Conns /\ now.wire = c.wire /\ now.unsent = c.unsent /\ now.mPendingWrite = c.mPendingWrite
      /\ now.link = c.link /\ now.no = c.no
  BY <1>0 DEF Conns
<1> HIDE DEF now, d
<1>3. CASE d = now
  <2>1. Settled(d) /\ Left(d) = Left(c)
    BY <1>0, <1>2, <1>3 DEF Settled, Books, Left
  <2> QED  BY <1>0, <1>2, <1>3, <2>1 DEF Sent, FinishUnlessStream, d, Settled
<1>4. CASE d = Disconnect(now) /\ c.mPendingWrite - 0 = 0
  <2>1. c.unsent = <<>>
    BY <1>0, <1>4, EmptySeq DEF Books
  <2>2. /\ d \in Conns /\ d.wire = c.wire /\ d.unsent = c.unsent /\ d.mPendingWrite = c.mPendingWrite
        /\ d.link = "closed" /\ d.no = c.no
    BY <1>2, <1>4 DEF Disconnect, Conns, Links
  <2>3. Settled(d) /\ Left(d) = Left(c)
    BY <1>0, <2>1, <2>2 DEF Settled, Books, Left
  <2> QED  BY <1>0, <2>2, <2>3 DEF Sent, FinishUnlessStream, d, Settled
<1> QED  BY <1>1, <1>3, <1>4

\* Messages one after another.
LEMMA sendAllSteps ==
    ASSUME NEW c, Settled(c), NEW i \in Commands, Commands \subseteq CommandNumbers, NEW n \in Nat,
           written[i] \in Nat, written[i] + n <= MaxMessages
    PROVE  \E f : /\ sendAll(c, i, n) = f[n] /\ f[0] = c
                  /\ \A k \in 1..n : /\ f[k] = send(f[k - 1], i, written[i] + k)
                                     /\ written[i] + k \in 1..MaxMessages
                  /\ \A k \in 0..n : Settled(f[k])
<1> DEFINE Acc == {d \in Conns : Settled(d)}
           Value(k, before) == send(before, i, written[i] + k)
           step == [p \in (1..n) \X Acc |-> Value(p[1], p[2])]
           Body(f) == [k \in 0..n |-> IF k = 0 THEN c ELSE send(f[k - 1], i, written[i] + k)]
           sent == CHOOSE f : f = Body(f)
<1>1. c \in Acc /\ \A d \in Acc : Settled(d)
  BY DEF Settled
<1>2. \A k \in 1..n : written[i] + k \in 1..MaxMessages
  BY SizesAssumption
<1>3. \A k \in 1..n, before \in Acc : Value(k, before) \in Acc
  <2> TAKE k \in 1..n, before \in Acc
  <2>1. Settled(before) /\ written[i] + k \in 1..MaxMessages
    BY <1>1, <1>2
  <2>2. Settled(Value(k, before))
    BY <2>1, sendSends DEF Sent
  <2> HIDE DEF Value
  <2> QED  BY <2>2 DEF Settled
<1> HIDE DEF Acc
<1>4. step \in [(1..n) \X Acc -> Acc]
  BY <1>3
<1>5. \A k \in 1..n, before \in Acc : step[<<k, before>>] = Value(k, before)
  OBVIOUS
<1>6. Stepped(n, Acc, c, step)
  <2> HIDE DEF step
  <2> QED  BY <1>1, <1>4, StepsExist
<1>7. PICK f \in [0..n -> Acc] : Steps(f, n, c, step)
  BY <1>6 DEF Stepped
<1>8. f = [k \in 0..n |-> IF k = 0 THEN c ELSE step[<<k, f[k - 1]>>]]
  BY <1>7 DEF Steps
<1>9. \A k \in 1..n : step[<<k, f[k - 1]>>] = Value(k, f[k - 1])
  <2> TAKE k \in 1..n
  <2>1. k - 1 \in 0..n
    OBVIOUS
  <2>2. f[k - 1] \in Acc
    BY <1>7, <2>1
  <2> HIDE DEF step, Value
  <2> QED  BY <1>5, <2>2
<1>10. f = Body(f)
  <2>1. \A k \in 0..n : k # 0 => k \in 1..n
    OBVIOUS
  <2> HIDE DEF step
  <2>2. \A k \in 0..n : k # 0 => step[<<k, f[k - 1]>>] = send(f[k - 1], i, written[i] + k)
    BY <1>9, <2>1
  <2> QED  BY <1>8, <2>2
<1>11. sent = Body(sent)
  <2> HIDE DEF Body
  <2> QED  BY <1>10
<1>12. sendAll(c, i, n) = sent[n]
  BY DEF sendAll
<1> HIDE DEF sent
<1>13. sent[0] = c
  BY <1>11
<1>14. \A k \in 1..n : sent[k] = Value(k, sent[k - 1])
  <2> TAKE k \in 1..n
  <2>1. k \in 0..n /\ k # 0
    OBVIOUS
  <2>2. sent[k] = Body(sent)[k]
    BY <1>11
  <2> QED  BY <2>1, <2>2
<1>15. \A k \in 0..n : sent[k] \in Acc
  <2> DEFINE T == {k \in 0..n : sent[k] \in Acc}
  <2>1. 0 \in T
    BY <1>1, <1>13
  <2>2. \A k \in 1..n : k - 1 \in T => k \in T
    <3> HIDE DEF Value
    <3> QED  BY <1>3, <1>14
  <2>3. \A k \in 0..n : k \in T
    <3> HIDE DEF T
    <3> QED  BY <2>1, <2>2, UpTo
  <2> QED  BY <2>3
<1> QED  BY <1>1, <1>2, <1>12, <1>13, <1>14, <1>15

LEMMA sendAllSends ==
    ASSUME NEW c, Settled(c), NEW i \in Commands, Commands \subseteq CommandNumbers, NEW n \in Nat,
           written[i] \in Nat, written[i] + n <= MaxMessages
    PROVE  /\ \E x : Whole(x) /\ Sent(c, sendAll(c, i, n), x)
           /\ n = 1 => Sent(c, sendAll(c, i, n), IF Sends(c) THEN Bytes(i, written[i] + 1) ELSE <<>>)
<1>1. PICK f : /\ sendAll(c, i, n) = f[n] /\ f[0] = c
               /\ \A k \in 1..n : /\ f[k] = send(f[k - 1], i, written[i] + k)
                                  /\ written[i] + k \in 1..MaxMessages
               /\ \A k \in 0..n : Settled(f[k])
  BY sendAllSteps
<1> DEFINE T == {k \in 0..n : \E x : Whole(x) /\ Sent(c, f[k], x)}
<1>2. 0 \in T
  <2>1. Sent(c, c, <<>>)
    BY LeftIsSeq DEF Sent, Settled
  <2>2. 0 \in 0..n
    OBVIOUS
  <2> QED  BY <1>1, <2>1, <2>2, NothingIsWhole
<1>3. \A k \in 1..n : k - 1 \in T => k \in T
  <2> SUFFICES ASSUME NEW k \in 1..n, k - 1 \in T PROVE k \in T
    OBVIOUS
  <2>1. PICK x : Whole(x) /\ Sent(c, f[k - 1], x)
    OBVIOUS
  <2>2. k - 1 \in 0..n /\ k \in 0..n
    OBVIOUS
  <2> DEFINE y == IF Sends(f[k - 1]) THEN Bytes(i, written[i] + k) ELSE <<>>
  <2>3. Whole(y)
    BY <1>1, BytesAreWhole, NothingIsWhole
  <2>4. Sent(f[k - 1], f[k], y)
    BY <1>1, <2>2, sendSends
  <2> HIDE DEF y
  <2>5. Whole(x \o y)
    BY <2>1, <2>3, WholeGoesOn
  <2>6. Sent(c, f[k], x \o y)
    <3>1. c \in Conns /\ x \in Seq(ByteSet) /\ y \in Seq(ByteSet)
      BY <2>1, <2>3 DEF Settled, Whole
    <3> QED  BY <2>1, <2>4, <3>1, SentBoth
  <2> QED  BY <2>2, <2>5, <2>6
<1>4. n \in T
  <2>1. n \in 0..n
    OBVIOUS
  <2> HIDE DEF T
  <2> QED  BY <1>2, <1>3, <2>1, UpTo
<1>5. n = 1 => Sent(c, sendAll(c, i, n), IF Sends(c) THEN Bytes(i, written[i] + 1) ELSE <<>>)
  <2> SUFFICES ASSUME n = 1
               PROVE  Sent(c, f[1], IF Sends(c) THEN Bytes(i, written[i] + 1) ELSE <<>>)
    BY <1>1
  <2>1. f[1] = send(c, i, written[i] + 1) /\ written[i] + 1 \in 1..MaxMessages
    <3>1. 1 \in 1..n /\ 1 - 1 = 0
      OBVIOUS
    <3>2. f[1] = send(f[1 - 1], i, written[i] + 1) /\ written[i] + 1 \in 1..MaxMessages
      BY <1>1, <3>1
    <3> QED  BY <1>1, <3>1, <3>2
  <2> QED  BY <2>1, sendSends
<1> QED  BY <1>1, <1>4, <1>5

---------------------------------------------------------------------------
(* The inductive invariant.                                                *)

Places == {"start", "exec", "select", "pipe", "stdin", "read", "parse", "end",
           "done", "crashed", "dropped", "undefined"}
Readers == [mReadBuffer : Seq(ByteSet), mReadBufferPos : Nat, mPendingRead : Nat, eof : BOOLEAN]
Queries == [cmd : Commands, type : Types, nr : Int]
Prints == [during : Nat, message : Messages, copies : Nat]

SetupTypes == setup \in Setups /\ Commands \subseteq CommandNumbers
LoopTypes ==
    /\ pipe \subseteq {"wake", "q"} /\ ready \subseteq {"pipe", "socket", "stdin"} /\ mQuit \in BOOLEAN
    /\ timer \in {"off", "set", "due"} /\ cutShort \in BOOLEAN
    /\ stdin \in [watched : BOOLEAN, unread : Int, held : Int, typed : Int]
RcTypes ==
    /\ pc \in Places /\ cmd \in Nat /\ mConnection \in BOOLEAN /\ slots \in Nat
    /\ reader \in Readers /\ printed \in Seq(Prints)
ServerTypes ==
    /\ serverUp \in BOOLEAN /\ toServer \in Seq(Queries) /\ conn \in Conns
    /\ written \in [Commands -> 0..MaxMessages] /\ processes \subseteq Commands \X Nat
TypeInv == SetupTypes /\ LoopTypes /\ RcTypes /\ ServerTypes

BooksInv ==
    /\ Books(conn)
    /\ conn.link = "closed" /\ serverUp => conn.unsent = <<>>
    /\ reader.mReadBufferPos <= Len(reader.mReadBuffer)

\* Without a connection there is nothing rc could still take, and what rc has
\* seen the end of has ended.
Running == {"select", "pipe", "stdin", "read", "parse", "end"}
RcInv ==
    /\ pc \in Running => cmd \in Commands
    /\ pc \in {"read", "parse"} => mConnection
    /\ pc = "start" => ~mConnection
    /\ ~mConnection => conn.link \in {"none", "closed"} /\ InFlight = <<>>
    /\ reader.eof => conn.link = "closed" /\ conn.wire = <<>>

FrameInv ==
    /\ Framed(Stream) /\ StartsRight(Stream, reader.mPendingRead)
    /\ conn.link \in {"backlog", "open"} => EndsWhole(Stream, reader.mPendingRead)

IInv == TypeInv /\ BooksInv /\ RcInv /\ FrameInv

LEMMA UnreadIsSeq ==
    ASSUME NEW b \in Readers, b.mReadBufferPos <= Len(b.mReadBuffer)
    PROVE  Unread(b) \in Seq(ByteSet) /\ Len(Unread(b)) = bytesAvailable(b)
<1> DEFINE B == b.mReadBuffer
           p == b.mReadBufferPos
<1>1. B \in Seq(ByteSet) /\ p \in Nat /\ p <= Len(B)
  BY DEF Readers
<1>2. Unread(b) = SubSeq(B, p + 1, Len(B)) /\ bytesAvailable(b) = Len(B) - p
  BY DEF Unread, bytesAvailable
<1> HIDE DEF B, p
<1>3. p \in 0..Len(B)
  BY <1>1, LenProperties
<1> QED  BY <1>1, <1>2, <1>3, TwoPieces

\* Stream, with rc's end b and rdm's end c of the connection.
StreamIs(b, c) == Unread(b) \o c.wire \o (IF c.link = "open" THEN c.unsent ELSE <<>>)

LEMMA StreamIsSeq ==
    ASSUME NEW b \in Readers, b.mReadBufferPos <= Len(b.mReadBuffer),
           NEW c, c.wire \in Seq(ByteSet), c.unsent \in Seq(ByteSet)
    PROVE  /\ StreamIs(b, c) = Unread(b) \o Left(c)
           /\ StreamIs(b, c) \in Seq(ByteSet) /\ Left(c) \in Seq(ByteSet)
           /\ Unread(b) \o c.wire \in Seq(ByteSet)
<1> DEFINE U == Unread(b)
           W == c.wire
           V == IF c.link = "open" THEN c.unsent ELSE <<>>
<1>1. U \in Seq(ByteSet) /\ W \in Seq(ByteSet) /\ V \in Seq(ByteSet)
  BY UnreadIsSeq, EmptySeq
<1>2. StreamIs(b, c) = (U \o W) \o V /\ Left(c) = W \o V
  BY DEF StreamIs, Left
<1> HIDE DEF U, W, V
<1>3. U \o W \in Seq(ByteSet) /\ W \o V \in Seq(ByteSet)
  BY <1>1, ConcatProperties
<1>4. (U \o W) \o V \in Seq(ByteSet)
  BY <1>1, <1>3, ConcatProperties
<1>5. (U \o W) \o V = U \o (W \o V)
  BY <1>1, ConcatAssociative, SMTT(30)
<1> QED  BY <1>2, <1>3, <1>4, <1>5 DEF U, W

LEMMA StreamNow ==
    ASSUME TypeInv, BooksInv
    PROVE  /\ Stream = StreamIs(reader, conn) /\ Stream \in Seq(ByteSet)
           /\ Unread(reader) \in Seq(ByteSet) /\ Len(Unread(reader)) = bytesAvailable(reader)
           /\ Stream = Unread(reader) \o Left(conn) /\ Left(conn) \in Seq(ByteSet)
           /\ InFlight \in Seq(Messages)
<1>1. /\ reader \in Readers /\ reader.mReadBufferPos <= Len(reader.mReadBuffer)
      /\ conn.wire \in Seq(ByteSet) /\ conn.unsent \in Seq(ByteSet)
  BY DEF TypeInv, RcTypes, ServerTypes, BooksInv, Conns
<1>2. Stream = StreamIs(reader, conn)
  BY DEF Stream, StreamIs
<1>3. /\ StreamIs(reader, conn) \in Seq(ByteSet) /\ Left(conn) \in Seq(ByteSet)
      /\ StreamIs(reader, conn) = Unread(reader) \o Left(conn)
  BY <1>1, StreamIsSeq
<1> QED  BY <1>1, <1>2, <1>3, UnreadIsSeq, MessagesAreMessages DEF InFlight

LEMMA SetupStays ==
    ASSUME UNCHANGED setup
    PROVE  Commands' = Commands /\ Conns' = Conns /\ Queries' = Queries /\ SetupTypes' = SetupTypes
  BY DEF Commands, Conns, Queries, SetupTypes

---------------------------------------------------------------------------
(* Steps of rdm.                                                           *)

\* rdm writes the bytes x, and may hang up when they are in the socket.
LEMMA WritesKeep ==
    ASSUME IInv, TypeInv', UNCHANGED <<setup, rcVars, serverUp>>, serverUp,
           NEW x, Whole(x), Sent(conn, conn', x)
    PROVE  /\ IInv' /\ InFlight' = InFlight \o MessagesIn(x) /\ MessagesIn(x) \in Seq(Messages)
           /\ conn.link # "open" => InFlight' = InFlight
<1> DEFINE n == reader.mPendingRead
<1>1. TypeInv /\ BooksInv /\ RcInv /\ FrameInv
  BY DEF IInv
<1>2. /\ UNCHANGED <<pc, cmd, mConnection, reader>> /\ Commands' = Commands
      /\ conn'.link \in {conn.link, "closed"} /\ Left(conn') = Left(conn) \o x
      /\ conn.link # "open" => x = <<>> /\ conn'.wire = conn.wire
      /\ Settled(conn') /\ x \in Seq(ByteSet) /\ n \in Nat
  BY <1>1, SetupStays DEF rcVars, Sent, Whole, TypeInv, RcTypes, Readers
<1>3. /\ Stream \in Seq(ByteSet) /\ Stream = Unread(reader) \o Left(conn)
      /\ Unread(reader) \in Seq(ByteSet) /\ Left(conn) \in Seq(ByteSet) /\ InFlight \in Seq(Messages)
  BY <1>1, StreamNow
<1>4. BooksInv'
  BY <1>1, <1>2 DEF BooksInv, Settled, Books
<1>5. Stream' = Stream \o x
  <2>1. Stream' = StreamIs(reader', conn')
    BY DEF Stream, StreamIs
  <2>2. StreamIs(reader', conn') = Unread(reader) \o Left(conn')
    <3>1. reader' \in Readers /\ conn'.wire \in Seq(ByteSet) /\ conn'.unsent \in Seq(ByteSet)
          /\ reader'.mReadBufferPos <= Len(reader'.mReadBuffer)
      BY <1>4 DEF TypeInv, RcTypes, ServerTypes, Conns, BooksInv
    <3> QED  BY <1>2, <3>1, StreamIsSeq
  <2> DEFINE U == Unread(reader)
             L == Left(conn)
  <2>3. U \in Seq(ByteSet) /\ L \in Seq(ByteSet) /\ Stream = U \o L /\ Stream' = U \o (L \o x)
    BY <1>2, <1>3, <2>1, <2>2
  <2> HIDE DEF U, L
  <2>4. (U \o L) \o x = U \o (L \o x)
    BY <1>2, <2>3, ConcatAssociative, SMTT(30)
  <2> QED  BY <2>3, <2>4
<1>6. InFlight' = InFlight \o MessagesIn(x) /\ MessagesIn(x) \in Seq(Messages)
  <2>1. InFlight' = MessagesIn(Stream')
    BY DEF InFlight, MessagesIn, EndsMessage
  <2>2. MessagesIn(Stream \o x) = MessagesIn(Stream) \o MessagesIn(x)
    BY <1>2, <1>3, MessagesInBoth
  <2> QED  BY <1>2, <1>5, <2>1, <2>2, MessagesAreMessages DEF InFlight
<1>7. conn.link # "open" => Stream' = Stream /\ InFlight' = InFlight
  <2> SUFFICES ASSUME conn.link # "open" PROVE Stream' = Stream /\ InFlight' = InFlight
    OBVIOUS
  <2>1. Stream' = Stream
    BY <1>2, <1>3, <1>5, ConcatEmptySeq
  <2> QED  BY <2>1 DEF InFlight, MessagesIn, EndsMessage
<1>8. RcInv'
  BY <1>1, <1>2, <1>7 DEF RcInv
<1>9. FrameInv'
  <2>1. CASE conn.link = "open"
    <3>1. EndsWhole(Stream, n) /\ Framed(Stream) /\ StartsRight(Stream, n)
      BY <1>1, <2>1 DEF FrameInv
    <3>2. Framed(Stream \o x) /\ StartsRight(Stream \o x, n) /\ EndsWhole(Stream \o x, n)
      BY <1>2, <1>3, <3>1, FramesGoOn
    <3> QED  BY <1>2, <1>5, <3>2 DEF FrameInv, Framed, StartsRight, EndsWhole, Follows, Size
  <2>2. CASE conn.link # "open"
    <3>1. conn'.link \in {"backlog", "open"} => conn.link \in {"backlog", "open"}
      BY <1>2
    <3> QED  BY <1>1, <1>2, <1>7, <2>2, <3>1 DEF FrameInv, Framed, StartsRight, EndsWhole, Follows, Size
  <2> QED  BY <2>1, <2>2
<1> QED  BY <1>4, <1>6, <1>7, <1>8, <1>9 DEF IInv

\* The front of a sequence.
LEMMA FrontOfConcat ==
    ASSUME NEW S, NEW a \in Seq(S), NEW u \in Seq(S)
    PROVE  /\ Len(a) \in 0..Len(a \o u) /\ a = SubSeq(a \o u, 1, Len(a))
           /\ a \o u \in Seq(S) /\ \A k \in 1..Len(a) : (a \o u)[k] = a[k]
<1> DEFINE s == a \o u
<1>1. /\ s \in Seq(S) /\ Len(s) = Len(a) + Len(u) /\ Len(a) \in Nat /\ Len(u) \in Nat
      /\ \A k \in 1..(Len(a) + Len(u)) : s[k] = IF k <= Len(a) THEN a[k] ELSE u[k - Len(a)]
  BY ConcatProperties, LenProperties
<1> HIDE DEF s
<1>2. Len(a) \in 0..Len(s)
  BY <1>1
<1>3. \A k \in 1..Len(a) : s[k] = a[k]
  BY <1>1
<1>4. /\ SubSeq(s, 1, Len(a)) \in Seq(S) /\ Len(SubSeq(s, 1, Len(a))) = Len(a)
      /\ \A k \in 1..Len(a) : SubSeq(s, 1, Len(a))[k] = s[k]
  BY <1>1, <1>2, TwoPieces
<1>5. SubSeq(s, 1, Len(a)) = a
  BY <1>3, <1>4, SeqEqual
<1> QED  BY <1>1, <1>2, <1>3, <1>5 DEF s

LEMMA FramedInFront ==
    ASSUME NEW a \in Seq(ByteSet), NEW u \in Seq(ByteSet), NEW n, Framed(a \o u), StartsRight(a \o u, n)
    PROVE  Framed(a) /\ StartsRight(a, n)
<1> DEFINE s == a \o u
<1>1. Len(a) \in Nat /\ Len(s) \in Nat /\ Len(a) <= Len(s) /\ \A k \in 1..Len(a) : s[k] = a[k]
  BY FrontOfConcat, LenProperties
<1>2. Framed(s) /\ StartsRight(s, n) /\ s \in Seq(ByteSet)
  BY FrontOfConcat
<1> HIDE DEF s
<1>3. \A k \in 1..Len(a) : a[k][3] <= Size(a[k][2])
  <2>1. \A k \in 1..Len(a) : k \in 1..Len(s)
    BY <1>1
  <2> QED  BY <1>1, <1>2, <2>1 DEF Framed
<1>4. \A k \in 1..(Len(a) - 1) : Follows(a[k], a[k + 1])
  <2>1. \A k \in 1..(Len(a) - 1) : k \in 1..(Len(s) - 1) /\ k \in 1..Len(a) /\ k + 1 \in 1..Len(a)
    BY <1>1
  <2> QED  BY <1>1, <1>2, <2>1 DEF Framed
<1>5. a # <<>> => s # <<>> /\ s[1] = a[1]
  <2> SUFFICES ASSUME a # <<>> PROVE s # <<>> /\ s[1] = a[1]
    OBVIOUS
  <2>1. Len(a) # 0
    BY EmptySeq
  <2>2. 1 \in 1..Len(a) /\ Len(s) # 0
    BY <1>1, <2>1
  <2> QED  BY <1>1, <1>2, <2>2, EmptySeq
<1> QED  BY <1>2, <1>3, <1>4, <1>5 DEF Framed, StartsRight

\* rdm goes down behind the bytes x; what is not in the socket is lost.
LEMMA GoesDownKeeps ==
    ASSUME IInv, TypeInv', UNCHANGED <<setup, rcVars>>, ~serverUp',
           NEW x, Whole(x), NEW c, Sent(conn, c, x), conn' = Disconnect(c)
    PROVE  /\ IInv' /\ MessagesIn(x) \in Seq(Messages)
           /\ \E keep \in 0..Len(InFlight \o MessagesIn(x)) :
                InFlight' = SubSeq(InFlight \o MessagesIn(x), 1, keep)
<1> DEFINE n == reader.mPendingRead
           u == IF c.link = "open" THEN c.unsent ELSE <<>>
<1>1. TypeInv /\ BooksInv /\ RcInv /\ FrameInv
  BY DEF IInv
<1>2. /\ UNCHANGED <<pc, cmd, mConnection, reader>> /\ Commands' = Commands
      /\ c.link \in {conn.link, "closed"} /\ Left(c) = Left(conn) \o x
      /\ conn.link # "open" => x = <<>> /\ c.wire = conn.wire
      /\ c \in Conns /\ Books(c) /\ x \in Seq(ByteSet) /\ n \in Nat
  BY <1>1, SetupStays DEF rcVars, Sent, Settled, Whole, TypeInv, RcTypes, Readers
<1>3. /\ conn'.link = "closed" /\ conn'.wire = c.wire /\ conn'.unsent = c.unsent
      /\ conn'.mPendingWrite = c.mPendingWrite
  BY <1>2 DEF Disconnect, Conns
<1>4. /\ Stream \in Seq(ByteSet) /\ Stream = Unread(reader) \o Left(conn)
      /\ Unread(reader) \in Seq(ByteSet) /\ Left(conn) \in Seq(ByteSet) /\ InFlight \in Seq(Messages)
  BY <1>1, StreamNow
<1>5. BooksInv'
  BY <1>1, <1>2, <1>3 DEF BooksInv, Books
<1>6. /\ Stream' \in Seq(ByteSet) /\ u \in Seq(ByteSet)
      /\ Stream \o x = Stream' \o u /\ Stream' = Unread(reader) \o c.wire
  <2> DEFINE U == Unread(reader)
             L == Left(conn)
             W == c.wire
  <2>1. U \in Seq(ByteSet) /\ L \in Seq(ByteSet) /\ W \in Seq(ByteSet) /\ u \in Seq(ByteSet)
        /\ L \o x = W \o u /\ Stream = U \o L
    BY <1>2, <1>4, EmptySeq DEF Conns, Left
  <2>2. Stream' = U \o W \o <<>>
    BY <1>2, <1>3 DEF Stream
  <2> HIDE DEF U, L, W, u
  <2>3. U \o W \in Seq(ByteSet)
    BY <2>1, ConcatProperties
  <2>4. Stream' = U \o W
    BY <2>2, <2>3, ConcatEmptySeq
  <2>5. (U \o L) \o x = U \o (L \o x)
    <3>1. U \in Seq(ByteSet) /\ L \in Seq(ByteSet) /\ x \in Seq(ByteSet)
      BY <1>2, <2>1
    <3> QED  BY <3>1, ConcatAssociative, SMTT(30)
  <2>6. (U \o W) \o u = U \o (W \o u)
    BY <2>1, ConcatAssociative, SMTT(30)
  <2> QED  BY <2>1, <2>3, <2>4, <2>5, <2>6 DEF U, W
<1> HIDE DEF u
<1>7. MessagesIn(x) \in Seq(Messages)
  BY <1>2, MessagesAreMessages
<1>8. InFlight' = MessagesIn(Stream')
  BY DEF InFlight, MessagesIn, EndsMessage
<1>9. InFlight \o MessagesIn(x) = InFlight' \o MessagesIn(u)
      /\ InFlight' \in Seq(Messages) /\ MessagesIn(u) \in Seq(Messages)
  <2> DEFINE s == Stream
             t == Stream'
  <2>1. s \in Seq(ByteSet) /\ t \in Seq(ByteSet) /\ s \o x = t \o u
        /\ InFlight = MessagesIn(s) /\ InFlight' = MessagesIn(t)
    BY <1>4, <1>6, <1>8 DEF InFlight
  <2> HIDE DEF s, t
  <2>2. MessagesIn(s \o x) = MessagesIn(s) \o MessagesIn(x)
    BY <1>2, <2>1, MessagesInBoth
  <2>3. MessagesIn(t \o u) = MessagesIn(t) \o MessagesIn(u)
    BY <1>6, <2>1, MessagesInBoth
  <2> QED  BY <1>6, <2>1, <2>2, <2>3, MessagesAreMessages
<1>10. \E keep \in 0..Len(InFlight \o MessagesIn(x)) :
          InFlight' = SubSeq(InFlight \o MessagesIn(x), 1, keep)
  <2> DEFINE q == InFlight'
             v == MessagesIn(u)
  <2>1. q \in Seq(Messages) /\ v \in Seq(Messages) /\ InFlight \o MessagesIn(x) = q \o v
    BY <1>9
  <2> HIDE DEF q, v
  <2>2. Len(q) \in 0..Len(q \o v) /\ q = SubSeq(q \o v, 1, Len(q))
    BY <2>1, FrontOfConcat
  <2> QED  BY <2>1, <2>2 DEF q
<1>11. conn.link # "open" => Stream' = Stream
  <2> SUFFICES ASSUME conn.link # "open" PROVE Stream' = Stream
    OBVIOUS
  <2>1. x = <<>> /\ u = <<>>
    BY <1>2 DEF u
  <2> QED  BY <1>4, <1>6, <2>1, ConcatEmptySeq
<1>12. RcInv'
  <2>1. conn.link # "open" => InFlight' = InFlight
    <3>1. InFlight = MessagesIn(Stream)
      BY DEF InFlight
    <3> QED  BY <1>8, <1>11, <3>1
  <2> QED  BY <1>1, <1>2, <1>3, <2>1 DEF RcInv
<1>13. FrameInv'
  <2>1. Framed(Stream \o x) /\ StartsRight(Stream \o x, n)
    <3>1. CASE conn.link = "open"
      <4>1. EndsWhole(Stream, n) /\ Framed(Stream) /\ StartsRight(Stream, n)
        BY <1>1, <3>1 DEF FrameInv
      <4> QED  BY <1>2, <1>4, <4>1, FramesGoOn
    <3>2. CASE conn.link # "open"
      <4>1. Stream \o x = Stream
        BY <1>2, <1>4, <3>2, ConcatEmptySeq
      <4> QED  BY <1>1, <4>1 DEF FrameInv
    <3> QED  BY <3>1, <3>2
  <2> DEFINE t == Stream'
  <2>2. t \in Seq(ByteSet) /\ Framed(t \o u) /\ StartsRight(t \o u, n)
    BY <1>6, <2>1
  <2> HIDE DEF t
  <2>3. Framed(t) /\ StartsRight(t, n)
    BY <1>6, <2>2, FramedInFront
  <2> QED  BY <1>2, <1>3, <2>3 DEF t, FrameInv, Framed, StartsRight, Follows, Size
<1> QED  BY <1>5, <1>7, <1>10, <1>12, <1>13 DEF IInv

\* What such a step is for the queue of answers.
Maps == Queue!Next \/ UNCHANGED Queue!vars

LEMMA WritesMap ==
    ASSUME IInv, TypeInv', UNCHANGED <<setup, rcVars, serverUp>>, serverUp,
           NEW x, Whole(x), Sent(conn, conn', x)
    PROVE  IInv' /\ Maps
<1>1. /\ IInv' /\ InFlight' = InFlight \o MessagesIn(x) /\ MessagesIn(x) \in Seq(Messages)
      /\ conn.link # "open" => InFlight' = InFlight
  BY WritesKeep
<1>2. InFlight \in Seq(Messages)
  BY StreamNow DEF IInv
<1>3. conn'.link \in {conn.link, "closed"} /\ printed' = printed
  BY DEF Sent, rcVars
<1>4. CASE conn.link \in {"backlog", "open"}
  <2> DEFINE q == InFlight
             v == MessagesIn(x)
  <2>1. q \in Seq(Messages) /\ v \in Seq(Messages) /\ InFlight' = q \o v
    BY <1>1, <1>2
  <2> HIDE DEF q, v
  <2>2. q \o v \in Seq(Messages) /\ Len(q) \in 0..Len(q \o v) /\ q = SubSeq(q \o v, 1, Len(q))
    BY <2>1, FrontOfConcat
  <2>3. Len(q \o v) >= Len(q)
    BY <2>1, <2>2, LenProperties
  <2>4. Queue!Write
    BY <1>3, <1>4, <2>1, <2>2, <2>3 DEF Queue!Write, q
  <2> QED  BY <1>1, <2>4 DEF Maps, Queue!Next
<1>5. CASE conn.link \notin {"backlog", "open"}
  <2>1. InFlight' = InFlight /\ conn'.link \notin {"backlog", "open"}
    BY <1>1, <1>3, <1>5
  <2> QED  BY <1>1, <1>3, <1>5, <2>1 DEF Maps, Queue!vars
<1> QED  BY <1>4, <1>5

LEMMA GoesDownMaps ==
    ASSUME IInv, TypeInv', UNCHANGED <<setup, rcVars>>, serverUp, ~serverUp',
           NEW x, Whole(x), NEW c, Sent(conn, c, x), conn' = Disconnect(c),
           MessagesIn(x) = <<>> \/ \E m \in Messages : MessagesIn(x) = <<m>>
    PROVE  IInv' /\ Maps
<1>1. PICK keep \in 0..Len(InFlight \o MessagesIn(x)) :
         InFlight' = SubSeq(InFlight \o MessagesIn(x), 1, keep)
  BY GoesDownKeeps
<1>2. IInv' /\ InFlight \in Seq(Messages)
  BY GoesDownKeeps, StreamNow DEF IInv
<1>3. conn'.link = "closed" /\ printed' = printed
  BY DEF Sent, rcVars, Disconnect, Settled, Conns
<1>4. \E last \in {InFlight} \cup {Append(InFlight, m) : m \in Messages} : last = InFlight \o MessagesIn(x)
  <2>1. CASE MessagesIn(x) = <<>>
    BY <1>2, <2>1, ConcatEmptySeq
  <2>2. CASE \E m \in Messages : MessagesIn(x) = <<m>>
    <3>1. PICK m \in Messages : MessagesIn(x) = <<m>>
      BY <2>2
    <3>2. Append(InFlight, m) = InFlight \o <<m>>
      BY <1>2, AppendIsConcat
    <3> QED  BY <3>1, <3>2
  <2> QED  BY <2>1, <2>2
<1>5. Queue!GoDown
  BY <1>1, <1>3, <1>4 DEF Queue!GoDown
<1> QED  BY <1>2, <1>5 DEF Maps, Queue!Next

LEMMA CountTypes ==
    ASSUME TypeInv, NEW c, NEW i \in Commands, NEW n \in Nat, written[i] + n <= MaxMessages
    PROVE  Count(c, i, n) \in [Commands -> 0..MaxMessages] /\ written[i] \in 0..MaxMessages
<1>1. written \in [Commands -> 0..MaxMessages] /\ MaxMessages \in Nat
  BY SizesAssumption DEF TypeInv, ServerTypes
<1>2. written[i] + (IF Sends(c) THEN n ELSE 0) \in 0..MaxMessages
  BY <1>1
<1> QED  BY <1>1, <1>2 DEF Count

\* The parts of the type that rdm's steps change.
LEMMA ServerTypesKeep ==
    ASSUME TypeInv, UNCHANGED <<setup, rcVars>>, serverUp' \in BOOLEAN, toServer' \in Seq(Queries),
           conn' \in Conns, written' \in [Commands -> 0..MaxMessages], processes' \subseteq Commands \X Nat
    PROVE  TypeInv'
<1>1. Commands' = Commands /\ Conns' = Conns /\ Queries' = Queries /\ SetupTypes' = SetupTypes
  BY SetupStays
<1>2. ServerTypes'
  BY <1>1 DEF ServerTypes
<1>3. LoopTypes' /\ RcTypes'
  BY DEF TypeInv, LoopTypes, RcTypes, rcVars
<1> QED  BY <1>1, <1>2, <1>3 DEF TypeInv

LEMMA SettledNow ==
    ASSUME IInv, serverUp
    PROVE  Settled(conn) /\ Commands \subseteq CommandNumbers /\ \A i \in Commands : written[i] \in Nat
  BY SizesAssumption DEF IInv, TypeInv, SetupTypes, ServerTypes, BooksInv, Settled

LEMMA AcceptKeeps ==
    ASSUME IInv, Accept
    PROVE  IInv' /\ Maps /\ InFlight' = InFlight
<1>1. /\ UNCHANGED <<setup, rcVars, serverUp, toServer, written, processes>>
      /\ conn' = [conn EXCEPT !.link = "open"] /\ conn.link = "backlog" /\ conn \in Conns
      /\ conn.wire = <<>> /\ conn.unsent = <<>>
  BY DEF Accept, IInv, TypeInv, ServerTypes, BooksInv, Books
<1>2. /\ conn' \in Conns /\ conn'.link = "open" /\ conn'.wire = <<>> /\ conn'.unsent = <<>>
      /\ conn'.mPendingWrite = conn.mPendingWrite
  BY <1>1 DEF Conns, Links
<1>3. TypeInv'
  BY <1>1, <1>2, ServerTypesKeep DEF IInv, TypeInv, ServerTypes
<1>4. /\ UNCHANGED <<pc, cmd, mConnection, reader, printed>> /\ Commands' = Commands
  BY <1>1, SetupStays DEF rcVars
<1>5. Stream' = Stream
  BY <1>1, <1>2, <1>4 DEF Stream
<1>6. InFlight' = InFlight
  <2>1. InFlight' = MessagesIn(Stream') /\ InFlight = MessagesIn(Stream)
    BY DEF InFlight, MessagesIn, EndsMessage
  <2> QED  BY <1>5, <2>1
<1>7. BooksInv'
  BY <1>1, <1>2, <1>4 DEF IInv, BooksInv, Books
<1>8. RcInv'
  BY <1>1, <1>4 DEF IInv, RcInv
<1>9. FrameInv'
  <2> DEFINE s == Stream
             n == reader.mPendingRead
  <2>1. Framed(s) /\ StartsRight(s, n) /\ EndsWhole(s, n)
    BY <1>1 DEF IInv, FrameInv
  <2>2. Stream' = s /\ reader'.mPendingRead = n
    BY <1>4, <1>5
  <2> HIDE DEF s, n
  <2> QED  BY <2>1, <2>2 DEF FrameInv, Framed, StartsRight, EndsWhole, Follows, Size
<1>10. UNCHANGED Queue!vars
  BY <1>1, <1>2, <1>4, <1>6 DEF Queue!vars
<1> QED  BY <1>3, <1>6, <1>7, <1>8, <1>9, <1>10 DEF IInv, Maps

LEMMA WriteMoreKeeps ==
    ASSUME IInv, WriteMore
    PROVE  IInv' /\ Maps
<1>1. /\ UNCHANGED <<setup, rcVars, serverUp, written, processes>> /\ serverUp
      /\ conn.link = "open" /\ conn' = writeMore(conn)
      /\ toServer' \in {<<>>, toServer}
  BY DEF WriteMore
<1>2. conn \in Conns /\ Books(conn) /\ TypeInv /\ ServerTypes
  BY DEF IInv, TypeInv, ServerTypes, BooksInv
<1>3. Sent(conn, conn', <<>>)
  BY <1>1, <1>2, writeMoreSends
<1>4. TypeInv'
  <2>1. conn' \in Conns /\ toServer' \in Seq(Queries)
    BY <1>1, <1>2, <1>3, EmptySeq DEF Sent, Settled, ServerTypes
  <2> QED  BY <1>1, <1>2, <2>1, ServerTypesKeep DEF ServerTypes
<1> QED  BY <1>1, <1>3, <1>4, NothingIsWhole, WritesMap

\* A job or a log writes one message.
LEMMA OutputKeeps ==
    ASSUME IInv, NEW i \in Commands, serverUp, written[i] < MaxMessages,
           conn' = send(conn, i, written[i] + 1), written' = Count(conn, i, 1),
           UNCHANGED <<setup, rcVars, serverUp, toServer, processes>>
    PROVE  IInv' /\ Maps
<1>1. Settled(conn) /\ Commands \subseteq CommandNumbers /\ written[i] \in Nat /\ TypeInv /\ ServerTypes
      /\ MaxMessages \in Nat
  BY SettledNow, SizesAssumption DEF IInv, TypeInv
<1>2. written[i] + 1 \in 1..MaxMessages /\ written[i] + 1 <= MaxMessages
  BY <1>1
<1> DEFINE x == IF Sends(conn) THEN Bytes(i, written[i] + 1) ELSE <<>>
<1>3. Whole(x) /\ Sent(conn, conn', x)
  BY <1>1, <1>2, BytesAreWhole, NothingIsWhole, sendSends
<1> HIDE DEF x
<1>4. TypeInv'
  <2>1. conn' \in Conns
    BY <1>3 DEF Sent, Settled
  <2>2. written' \in [Commands -> 0..MaxMessages]
    BY <1>1, <1>2, CountTypes
  <2> QED  BY <1>1, <2>1, <2>2, ServerTypesKeep DEF ServerTypes
<1> QED  BY <1>3, <1>4, WritesMap

LEMMA JobsKeep ==
    ASSUME IInv, NEW i \in Commands, JobOutput(i) \/ LogOutput(i)
    PROVE  IInv' /\ Maps
  BY OutputKeeps DEF JobOutput, LogOutput

\* The connection with one field that the bytes do not depend on changed.
LEMMA Unsettled ==
    ASSUME NEW c, Settled(c), NEW d \in Conns, d.no = c.no, d.link = c.link, d.wire = c.wire,
           d.unsent = c.unsent, d.mPendingWrite = c.mPendingWrite
    PROVE  Sent(c, d, <<>>)
<1>1. c \in Conns /\ Left(c) \o <<>> = Left(c)
  BY LeftIsSeq DEF Settled
<1>2. Settled(d) /\ Left(d) = Left(c)
  BY DEF Settled, Books, Left
<1> QED  BY <1>1, <1>2 DEF Sent

LEMMA JobEndKeeps ==
    ASSUME IInv, NEW j \in conn.lookups, JobEnd(j)
    PROVE  IInv' /\ Maps
<1>1. Settled(conn) /\ Commands \subseteq CommandNumbers /\ TypeInv /\ ServerTypes /\ conn \in Conns
  BY SettledNow DEF IInv, TypeInv, JobEnd, ServerTypes
<1> DEFINE i == j[1]
           c == [conn EXCEPT !.lookups = @ \ {j}]
<1>2. i \in Commands
  BY <1>1 DEF Conns
<1>3. c \in Conns /\ Sent(conn, c, <<>>)
  <2>1. /\ c \in Conns /\ c.no = conn.no /\ c.link = conn.link /\ c.wire = conn.wire
        /\ c.unsent = conn.unsent /\ c.mPendingWrite = conn.mPendingWrite
    BY <1>1 DEF Conns
  <2> HIDE DEF c
  <2> QED  BY <1>1, <2>1, Unsettled
<1>4. PICK n \in {0, 1} :
        /\ written[i] + n <= MaxMessages
        /\ conn' = FinishUnlessStream(sendAll(c, i, n))
        /\ written' = Count(conn, i, n)
  BY DEF JobEnd
<1>5. serverUp /\ UNCHANGED <<setup, rcVars, serverUp, processes>> /\ toServer' \in {<<>>, toServer}
  BY DEF JobEnd
<1> HIDE DEF i, c
<1>6. n \in Nat /\ written[i] \in Nat /\ Settled(c)
  BY <1>2, <1>3, <1>5, SettledNow DEF Sent
<1>7. PICK x : Whole(x) /\ Sent(c, sendAll(c, i, n), x)
  BY <1>1, <1>2, <1>4, <1>6, sendAllSends
<1>8. Sent(sendAll(c, i, n), conn', <<>>)
  <2>1. Settled(sendAll(c, i, n))
    BY <1>7 DEF Sent
  <2> QED  BY <1>4, <2>1, finishSends
<1>9. Sent(conn, conn', x)
  <2>1. x \in Seq(ByteSet) /\ <<>> \in Seq(ByteSet) /\ <<>> \o x = x /\ x \o <<>> = x
    BY <1>7, EmptySeq, ConcatEmptySeq DEF Whole
  <2>2. Sent(conn, sendAll(c, i, n), <<>> \o x)
    BY <1>1, <1>3, <1>7, <2>1, SentBoth
  <2>3. Sent(conn, conn', (<<>> \o x) \o <<>>)
    BY <1>1, <1>8, <2>1, <2>2, SentBoth
  <2> QED  BY <2>1, <2>3
<1>10. TypeInv'
  <2>1. conn' \in Conns /\ toServer' \in Seq(Queries)
    BY <1>1, <1>5, <1>9, EmptySeq DEF Sent, Settled, ServerTypes
  <2>2. written' \in [Commands -> 0..MaxMessages]
    BY <1>1, <1>2, <1>4, <1>6, CountTypes
  <2> QED  BY <1>1, <1>5, <2>1, <2>2, ServerTypesKeep DEF ServerTypes
<1> QED  BY <1>5, <1>7, <1>9, <1>10, WritesMap

LEMMA ProcessEndKeeps ==
    ASSUME IInv, ProcessEnd
    PROVE  IInv' /\ Maps
<1>1. PICK p \in processes, n \in {2, 3} :
        /\ serverUp /\ written[p[1]] + n <= MaxMessages
        /\ processes' = processes \ {p}
        /\ conn' = finish(sendAll(conn, p[1], n))
        /\ written' = Count(conn, p[1], n)
        /\ toServer' \in {<<>>, toServer}
        /\ UNCHANGED <<setup, rcVars, serverUp>>
  BY DEF ProcessEnd
<1>2. Settled(conn) /\ Commands \subseteq CommandNumbers /\ TypeInv /\ ServerTypes /\ conn \in Conns
  BY <1>1, SettledNow DEF IInv, TypeInv, ServerTypes
<1> DEFINE i == p[1]
<1>3. i \in Commands /\ written[i] \in Nat /\ n \in Nat
  BY <1>1, <1>2, SettledNow DEF ServerTypes
<1>4. /\ written[i] + n <= MaxMessages /\ conn' = finish(sendAll(conn, i, n))
      /\ written' = Count(conn, i, n)
  BY <1>1
<1> HIDE DEF i
<1>5. PICK x : Whole(x) /\ Sent(conn, sendAll(conn, i, n), x)
  BY <1>2, <1>3, <1>4, sendAllSends
<1>6. Sent(conn, conn', x)
  <2>1. Settled(sendAll(conn, i, n))
    BY <1>5 DEF Sent
  <2>2. Sent(sendAll(conn, i, n), conn', <<>>)
    BY <1>4, <2>1, finishSends
  <2>3. x \in Seq(ByteSet) /\ <<>> \in Seq(ByteSet) /\ x \o <<>> = x
    BY <1>5, EmptySeq, ConcatEmptySeq DEF Whole
  <2>4. Sent(conn, conn', x \o <<>>)
    BY <1>2, <1>5, <2>2, <2>3, SentBoth
  <2> QED  BY <2>3, <2>4
<1>7. TypeInv'
  <2>1. conn' \in Conns /\ toServer' \in Seq(Queries)
    BY <1>1, <1>2, <1>6, EmptySeq DEF Sent, Settled, ServerTypes
  <2>2. written' \in [Commands -> 0..MaxMessages]
    BY <1>2, <1>3, <1>4, CountTypes
  <2> QED  BY <1>1, <1>2, <2>1, <2>2, ServerTypesKeep DEF ServerTypes
<1> QED  BY <1>1, <1>5, <1>6, <1>7, WritesMap

LEMMA ProcessEndDanglingKeeps ==
    ASSUME IInv, ProcessEndDangling
    PROVE  IInv' /\ Maps
<1>1. /\ serverUp /\ serverUp' \in BOOLEAN /\ UNCHANGED <<setup, rcVars, written>>
      /\ IF serverUp' THEN processes' \subseteq processes /\ UNCHANGED <<conn, toServer>>
         ELSE processes' = {} /\ conn' = Disconnect(conn) /\ toServer' = <<>>
  BY DEF ProcessEndDangling
<1>2. Settled(conn) /\ TypeInv /\ ServerTypes /\ conn \in Conns
  BY <1>1, SettledNow DEF IInv, TypeInv, ServerTypes
<1>3. Sent(conn, conn, <<>>)
  BY <1>2, Unsettled
<1>4. Disconnect(conn) \in Conns
  BY <1>2 DEF Disconnect, Conns, Links
<1>5. TypeInv'
  <2>1. conn' \in Conns /\ toServer' \in Seq(Queries) /\ processes' \subseteq Commands \X Nat
    BY <1>1, <1>2, <1>4, EmptySeq DEF ServerTypes
  <2> QED  BY <1>1, <1>2, <2>1, ServerTypesKeep DEF ServerTypes
<1>6. Whole(<<>>) /\ MessagesIn(<<>>) = <<>>
  <2>1. <<>> \in Seq(ByteSet) /\ \A k \in 1..Len(<<>>) : FALSE
    BY EmptySeq
  <2> QED  BY <2>1, NothingIsWhole, NoMessages
<1>7. CASE serverUp'
  <2>1. UNCHANGED serverUp /\ conn' = conn /\ Sent(conn, conn', <<>>)
    BY <1>1, <1>3, <1>7
  <2> QED  BY <1>1, <1>5, <1>6, <2>1, WritesMap
<1>8. CASE ~serverUp'
  BY <1>1, <1>3, <1>5, <1>6, <1>8, GoesDownMaps
<1> QED  BY <1>7, <1>8

\* How many messages a handler writes.
LEMMA OutcomeWrites ==
    ASSUME NEW ns \in SUBSET Nat, NEW then, NEW o \in Outcome(ns, then)
    PROVE  o.writes \in Nat /\ o.writes \in ns
  BY DEF Outcome

LEMMA HandlersWrite ==
    ASSUME NEW type, NEW o \in Outcomes(type)
    PROVE  o.writes \in Nat /\ (type = "Shutdown" => o.writes = 1)
<1>1. AnyNumber \in SUBSET Nat /\ {0} \in SUBSET Nat /\ {1} \in SUBSET Nat /\ {0, 1} \in SUBSET Nat
  BY SizesAssumption DEF AnyNumber
<1>2. PICK ns, then : /\ ns \in SUBSET Nat
                      /\ o \in Outcome(ns, then)
                      /\ (type = "Shutdown" => ns = {1})
  <2>1. CASE type \in Lookups \cup SymbolQueries \cup ProjectQueries
    <3>1. o \in Outcome(AnyNumber, "finish") /\ type # "Shutdown"
      BY <2>1 DEF Outcomes, Lookups, SymbolQueries, ProjectQueries, OneAnswer, YesOrNo
    <3> QED  BY <1>1, <3>1
  <2>2. CASE type \in OneAnswer \cup YesOrNo
    <3>1. o \in Outcome({1}, "finish")
      BY <2>2 DEF Outcomes, OneAnswer, YesOrNo, Lookups, SymbolQueries, ProjectQueries
    <3> QED  BY <1>1, <3>1
  <2>3. CASE type \notin Lookups \cup SymbolQueries \cup ProjectQueries \cup OneAnswer \cup YesOrNo
    <3>1. type # "Shutdown"
      BY <2>3 DEF OneAnswer
    <3>2. \/ o \in cursorInfo \cup dumpFile \cup status \cup reindex \cup fixIts \cup preprocessFile
          \/ o \in startCompletion \cup Outcome({0}, "finish") \cup Outcome({0, 1}, "log")
          \/ o \in Outcome({0}, "stream")
      BY <2>3 DEF Outcomes
    <3>3. \/ \E then : o \in Outcome(AnyNumber, then)
          \/ \E then : o \in Outcome({0}, then)
          \/ \E then : o \in Outcome({1}, then)
          \/ \E then : o \in Outcome({0, 1}, then)
      BY <3>2 DEF cursorInfo, dumpFile, status, reindex, fixIts, preprocessFile, startCompletion
    <3> QED  BY <1>1, <3>1, <3>3
  <2> QED  BY <2>1, <2>2, <2>3
<1>3. o.writes \in Nat /\ o.writes \in ns
  BY <1>2, OutcomeWrites
<1> QED  BY <1>2, <1>3

LEMMA HandleKeeps ==
    ASSUME IInv, Handle
    PROVE  IInv' /\ Maps
<1>1. /\ serverUp /\ conn.link = "open" /\ toServer # <<>> /\ UNCHANGED <<setup, rcVars>>
  BY DEF Handle
<1>2. /\ Settled(conn) /\ Commands \subseteq CommandNumbers /\ TypeInv /\ ServerTypes /\ conn \in Conns
      /\ setup \in Setups
  BY <1>1, SettledNow DEF IInv, TypeInv, ServerTypes, SetupTypes
<1> DEFINE m == Head(toServer)
           i == m.cmd
           c == IF IsQuery(i) THEN [conn EXCEPT !.mSilent = setup.mCommands[i].silent] ELSE conn
<1>3. m \in Queries /\ i \in Commands /\ m.nr \in Int /\ Tail(toServer) \in Seq(Queries)
  <2>1. toServer \in Seq(Queries)
    BY <1>2 DEF ServerTypes
  <2>2. m \in Queries /\ Tail(toServer) \in Seq(Queries)
    BY <1>1, <2>1, HeadTailProperties
  <2> QED  BY <2>2 DEF Queries
<1>4. PICK o \in Outcomes(m.type) :
        /\ written[i] + o.writes <= MaxMessages
        /\ written' = Count(c, i, o.writes)
        /\ conn' = Ended(m, o.then, sendAll(c, i, o.writes))
        /\ processes' = IF m.type = "Shutdown" THEN {}
                        ELSE processes \cup (IF o.then = "process" THEN {<<i, conn.no>>} ELSE {})
        /\ serverUp' = (m.type # "Shutdown")
        /\ toServer' = IF conn'.link = "closed" THEN <<>> ELSE Tail(toServer)
  BY DEF Handle
<1>5. Sent(conn, c, <<>>)
  <2>1. setup.mCommands[i].silent \in BOOLEAN
    <3>1. setup.mCommands \in Seq(OptionSet) /\ i \in DOMAIN setup.mCommands
      BY <1>2, <1>3 DEF Setups, Commands
    <3>2. setup.mCommands[i] \in OptionSet
      BY <3>1, LenProperties
    <3> QED  BY <3>2 DEF OptionSet
  <2>2. /\ c \in Conns /\ c.no = conn.no /\ c.link = conn.link /\ c.wire = conn.wire
        /\ c.unsent = conn.unsent /\ c.mPendingWrite = conn.mPendingWrite
    BY <1>2, <2>1 DEF Conns
  <2> HIDE DEF c
  <2> QED  BY <1>2, <2>2, Unsettled
<1> HIDE DEF c, i
<1> DEFINE n == o.writes
           s == sendAll(c, i, n)
<1>6. n \in Nat /\ (m.type = "Shutdown" => n = 1) /\ written[i] \in Nat /\ written[i] + n <= MaxMessages
      /\ Settled(c) /\ c \in Conns
  BY <1>1, <1>3, <1>4, <1>5, HandlersWrite, SettledNow DEF Sent, Settled
<1>7. /\ \E x : Whole(x) /\ Sent(c, s, x)
      /\ n = 1 => Sent(c, s, IF Sends(c) THEN Bytes(i, written[i] + 1) ELSE <<>>)
  <2> HIDE DEF n
  <2> QED  BY <1>2, <1>3, <1>6, sendAllSends
<1>8. written' \in [Commands -> 0..MaxMessages]
  <2>1. written' = Count(c, i, n)
    BY <1>4
  <2> HIDE DEF n
  <2> QED  BY <1>2, <1>3, <1>6, <2>1, CountTypes
<1>9. Whole(<<>>) /\ MessagesIn(<<>>) = <<>> /\ <<>> \in Seq(ByteSet)
  <2>1. <<>> \in Seq(ByteSet) /\ \A k \in 1..Len(<<>>) : FALSE
    BY EmptySeq
  <2> QED  BY <2>1, NothingIsWhole, NoMessages
<1>10. \A x : Whole(x) /\ Sent(c, s, x) => Sent(conn, s, x)
  <2> SUFFICES ASSUME NEW x, Whole(x), Sent(c, s, x) PROVE Sent(conn, s, x)
    OBVIOUS
  <2> HIDE DEF s
  <2>1. x \in Seq(ByteSet) /\ <<>> \o x = x
    BY ConcatEmptySeq DEF Whole
  <2>2. Sent(conn, s, <<>> \o x)
    BY <1>2, <1>5, <1>9, <2>1, SentBoth
  <2> QED  BY <2>1, <2>2
<1>11. CASE m.type = "Shutdown"
  <2> DEFINE x == IF Sends(c) THEN Bytes(i, written[i] + 1) ELSE <<>>
  <2>1. n = 1 /\ written[i] + 1 \in 1..MaxMessages
    BY <1>6, <1>11
  <2>2. Whole(x) /\ (MessagesIn(x) = <<>> \/ \E a \in Messages : MessagesIn(x) = <<a>>)
    <3>1. i \in CommandNumbers
      BY <1>2, <1>3
    <3>2. Whole(Bytes(i, written[i] + 1)) /\ MessagesIn(Bytes(i, written[i] + 1)) \in {<<>>, <<<<i, written[i] + 1>>>>}
      BY <2>1, <3>1, BytesAreWhole
    <3>3. <<i, written[i] + 1>> \in Messages
      BY <2>1, <3>1 DEF Messages, CommandNumbers
    <3> QED  BY <1>9, <3>2, <3>3
  <2>3. Sent(conn, s, x)
    <3> HIDE DEF n, s, x
    <3> QED  BY <1>7, <1>10, <2>1, <2>2 DEF x
  <2>4. conn' = Disconnect(s) /\ ~serverUp'
    BY <1>4, <1>11 DEF Ended
  <2> HIDE DEF s, x
  <2>5. TypeInv'
    <3>1. conn' \in Conns /\ conn'.link = "closed"
      BY <2>3, <2>4 DEF Sent, Settled, Disconnect, Conns, Links
    <3>2. processes' = {} /\ toServer' = <<>> /\ toServer' \in Seq(Queries) /\ serverUp' \in BOOLEAN
      BY <1>4, <1>11, <3>1, EmptySeq
    <3> QED  BY <1>1, <1>2, <1>8, <3>1, <3>2, ServerTypesKeep
  <2> QED  BY <1>1, <2>2, <2>3, <2>4, <2>5, GoesDownMaps
<1>12. CASE m.type # "Shutdown"
  <2>1. PICK x : Whole(x) /\ Sent(c, s, x)
    BY <1>7
  <2>2. Sent(conn, s, x) /\ Settled(s) /\ s \in Conns
    BY <1>10, <2>1 DEF Sent, Settled
  <2>3. conn' = Ended(m, o.then, s)
    BY <1>4
  <2> HIDE DEF s, m
  <2>4. Sent(s, conn', <<>>)
    <3> DEFINE job == [s EXCEPT !.lookups = @ \cup {<<m.cmd, m.nr>>}]
               log == [s EXCEPT !.loggers = @ \cup {m.cmd}]
               streams == [s EXCEPT !.stream = TRUE]
    <3>1. conn' \in {FinishUnlessStream(s), job, log, streams, s}
      BY <1>12, <2>3 DEF Ended
    <3>2. m.cmd \in Commands /\ m.nr \in Int
      BY <1>3 DEF i, m
    <3>3. /\ job \in Conns /\ job.no = s.no /\ job.link = s.link /\ job.wire = s.wire
          /\ job.unsent = s.unsent /\ job.mPendingWrite = s.mPendingWrite
      <4>1. s.lookups \subseteq Commands \X Int /\ <<m.cmd, m.nr>> \in Commands \X Int
        BY <2>2, <3>2 DEF Conns
      <4> DEFINE asked == s.lookups \cup {<<m.cmd, m.nr>>}
      <4>2. asked \in SUBSET (Commands \X Int) /\ job = [s EXCEPT !.lookups = asked]
        BY <4>1
      <4> HIDE DEF asked
      <4> QED  BY <2>2, <4>2 DEF Conns
    <3>4. /\ log \in Conns /\ log.no = s.no /\ log.link = s.link /\ log.wire = s.wire
          /\ log.unsent = s.unsent /\ log.mPendingWrite = s.mPendingWrite
      BY <2>2, <3>2 DEF Conns
    <3>5. /\ streams \in Conns /\ streams.no = s.no /\ streams.link = s.link /\ streams.wire = s.wire
          /\ streams.unsent = s.unsent /\ streams.mPendingWrite = s.mPendingWrite
      BY <2>2 DEF Conns
    <3> HIDE DEF job, log, streams
    <3>6. Sent(s, job, <<>>) /\ Sent(s, log, <<>>) /\ Sent(s, streams, <<>>) /\ Sent(s, s, <<>>)
      BY <2>2, <3>3, <3>4, <3>5, Unsettled
    <3> QED  BY <2>2, <3>1, <3>6, finishSends
  <2>5. Sent(conn, conn', x)
    <3>1. x \in Seq(ByteSet) /\ x \o <<>> = x
      BY <2>1, ConcatEmptySeq DEF Whole
    <3>2. Sent(conn, conn', x \o <<>>)
      BY <1>2, <1>9, <2>2, <2>4, <3>1, SentBoth
    <3> QED  BY <3>1, <3>2
  <2>6. serverUp' = TRUE /\ UNCHANGED serverUp
    BY <1>1, <1>2, <1>4, <1>12 DEF ServerTypes
  <2>7. TypeInv'
    <3>1. conn' \in Conns
      BY <2>5 DEF Sent, Settled
    <3>2. toServer' \in Seq(Queries) /\ serverUp' \in BOOLEAN
      BY <1>3, <1>4, <2>6, EmptySeq
    <3>3. processes' \subseteq Commands \X Nat
      <4>1. conn.no \in Nat /\ processes \subseteq Commands \X Nat
        BY <1>2 DEF Conns, ServerTypes
      <4> QED  BY <1>3, <1>4, <4>1
    <3> QED  BY <1>1, <1>2, <1>8, <3>1, <3>2, <3>3, ServerTypesKeep
  <2> QED  BY <1>1, <2>1, <2>5, <2>6, <2>7, WritesMap
<1> QED  BY <1>11, <1>12

---------------------------------------------------------------------------
(* Steps of rc.                                                            *)

\* The bytes are where they were.
LEMMA QuietKeeps ==
    ASSUME IInv, TypeInv', UNCHANGED <<setup, mConnection, reader, printed, serverUp, conn>>,
           pc' \in Running => cmd' \in Commands, pc' \in {"read", "parse"} => mConnection,
           pc' = "start" => pc = "start"
    PROVE  IInv' /\ Maps
<1>1. Stream' = Stream /\ Commands' = Commands
  BY SetupStays DEF Stream
<1>2. InFlight' = InFlight
  <2>1. InFlight' = MessagesIn(Stream') /\ InFlight = MessagesIn(Stream)
    BY DEF InFlight, MessagesIn, EndsMessage
  <2> QED  BY <1>1, <2>1
<1>3. BooksInv'
  BY DEF IInv, BooksInv, Books
<1>4. RcInv'
  BY <1>1, <1>2 DEF IInv, RcInv
<1>5. FrameInv'
  <2> DEFINE s == Stream
  <2>1. /\ Framed(s) /\ StartsRight(s, reader.mPendingRead)
        /\ conn.link \in {"backlog", "open"} => EndsWhole(s, reader.mPendingRead)
    BY DEF IInv, FrameInv
  <2>2. Stream' = s
    BY <1>1
  <2> HIDE DEF s
  <2> QED  BY <2>1, <2>2 DEF FrameInv, Framed, StartsRight, EndsWhole, Follows, Size
<1>6. UNCHANGED Queue!vars
  BY <1>2 DEF Queue!vars
<1> QED  BY <1>3, <1>4, <1>5, <1>6 DEF IInv, Maps

\* The parts of the type that rc's steps change.
LEMMA RcTypesKeep ==
    ASSUME TypeInv, UNCHANGED <<setup, serverUp, written, processes>>, LoopTypes', RcTypes',
           toServer' \in Seq(Queries), conn' \in Conns
    PROVE  TypeInv'
<1>1. Commands' = Commands /\ Conns' = Conns /\ Queries' = Queries /\ SetupTypes' = SetupTypes
  BY SetupStays
<1>2. ServerTypes'
  BY <1>1 DEF ServerTypes, TypeInv
<1> QED  BY <1>1, <1>2 DEF TypeInv

LEMMA RunningHasCommand ==
    ASSUME IInv, pc \in Running
    PROVE  cmd \in Commands
  BY DEF IInv, RcInv

\* A query names the command that rc runs.
LEMMA AskedIsQuery ==
    ASSUME TypeInv, cmd \in Commands
    PROVE  /\ \A nr \in Int : Asked(nr) \in Queries
           /\ Request \in Queries
<1>1. setup.mCommands[cmd].type \in Types
  <2>1. setup.mCommands \in Seq(OptionSet) /\ cmd \in DOMAIN setup.mCommands
    BY DEF TypeInv, SetupTypes, Setups, Commands
  <2>2. setup.mCommands[cmd] \in OptionSet
    BY <2>1, LenProperties
  <2> QED  BY <2>2 DEF OptionSet
<1>2. \A nr \in Int : Asked(nr) \in Queries
  BY <1>1 DEF Asked, Queries
<1>3. Request \in Queries
  <2>1. stdin.typed - stdin.unread - stdin.held + 1 \in Int
    BY DEF TypeInv, LoopTypes
  <2>2. "Completion" \in Types
    BY DEF Types
  <2> QED  BY <1>2, <2>1, <2>2 DEF Request, Queries
<1> QED  BY <1>2, <1>3

LEMMA OneQuery ==
    ASSUME NEW q \in Queries
    PROVE  <<q>> \in Seq(Queries)
<1> DEFINE Q == Queries
<1>1. q \in Q
  OBVIOUS
<1> HIDE DEF Q
<1>2. <<q>> \in Seq(Q)
  BY <1>1
<1> QED  BY <1>2 DEF Q

LEMMA WatchStdinTypes ==
    ASSUME LoopTypes, WatchStdin
    PROVE  stdin' \in [watched : BOOLEAN, unread : Int, held : Int, typed : Int]
<1> DEFINE w == stdin.watched \/ setup.mCommands[cmd].type = "Stream"
<1>1. stdin' = [stdin EXCEPT !.watched = w] /\ w \in BOOLEAN
  BY DEF WatchStdin
<1> HIDE DEF w
<1> QED  BY <1>1 DEF LoopTypes

LEMMA sendMessageKeeps ==
    ASSUME IInv, sendMessage
    PROVE  IInv' /\ Maps
<1>1. TypeInv /\ cmd \in Commands /\ LoopTypes /\ RcTypes /\ ServerTypes
  BY DEF IInv, TypeInv, sendMessage
<1>2. toServer' \in Seq(Queries)
  <2>1. Asked(0) \in Queries /\ toServer \in Seq(Queries)
    BY <1>1, AskedIsQuery DEF ServerTypes
  <2>2. Append(toServer, Asked(0)) \in Seq(Queries)
    BY <2>1, AppendProperties
  <2> QED  BY <2>1, <2>2 DEF sendMessage
<1>3. LoopTypes' /\ RcTypes'
  <2>1. stdin' \in [watched : BOOLEAN, unread : Int, held : Int, typed : Int]
    BY <1>1, WatchStdinTypes DEF sendMessage
  <2>2. RcTypes'
    BY <1>1 DEF sendMessage, RcTypes, Places
  <2>3. /\ pipe' = pipe \cup {"wake"} /\ mQuit' = FALSE /\ UNCHANGED <<ready, cutShort>>
        /\ timer' \in {"off", "set"}
    BY DEF sendMessage, AddTimer
  <2> QED  BY <1>1, <2>1, <2>2, <2>3 DEF LoopTypes
<1>4. TypeInv'
  BY <1>1, <1>2, <1>3, RcTypesKeep DEF sendMessage, ServerTypes
<1> QED  BY <1>1, <1>4, QuietKeeps DEF sendMessage

\* Steps of the event loop.
LEMMA LoopKeeps ==
    ASSUME IInv, Finished \/ Select \/ handlePipe \/ processStdinFails \/ processStdinDangling
                 \/ RoundEnd \/ Type \/ Tick
    PROVE  IInv' /\ Maps
<1>1. TypeInv /\ LoopTypes /\ RcTypes /\ ServerTypes /\ RcInv
  BY DEF IInv, TypeInv
<1>2. UNCHANGED <<setup, mConnection, reader, slots, printed, serverUp, toServer, conn, written, processes>>
  BY DEF Finished, Select, handlePipe, processStdinFails, processStdinDangling, RoundEnd, Type, Tick,
         serverVars
<1>3. /\ pc' \in Places /\ cmd' \in Nat
      /\ pc' \in Running => cmd' \in Commands
      /\ pc' \in {"read", "parse"} => mConnection
      /\ pc' = "start" => pc = "start"
  BY <1>1 DEF Finished, Select, handlePipe, AfterStdin, processStdinFails, processStdinDangling,
              RoundEnd, Type, Tick, RcTypes, RcInv, Running, Places
<1>4. LoopTypes'
  <2>1. CASE Finished \/ processStdinDangling \/ RoundEnd \/ Tick
    <3>1. UNCHANGED <<pipe, ready, mQuit, stdin, cutShort>> /\ timer' \in {timer, "off", "due"}
      BY <2>1 DEF Finished, processStdinDangling, RoundEnd, Tick, loopVars
    <3> QED  BY <1>1, <3>1 DEF LoopTypes
  <2>2. CASE Select
    BY <1>1, <2>2 DEF Select, Readable, LoopTypes
  <2>3. CASE handlePipe
    BY <1>1, <2>3 DEF handlePipe, LoopTypes
  <2>4. CASE processStdinFails \/ Type
    <3>1. /\ UNCHANGED <<ready, mQuit, timer>> /\ pipe' \in {pipe, pipe \cup {"wake", "q"}}
          /\ cutShort' \in {cutShort, TRUE}
      BY <2>4 DEF processStdinFails, Type
    <3>2. stdin' \in [watched : BOOLEAN, unread : Int, held : Int, typed : Int]
      <4> DEFINE less == stdin.unread - 1  more == stdin.unread + 1  typed == stdin.typed + 1
      <4>1. \/ stdin' = [stdin EXCEPT !.watched = FALSE, !.unread = less]
            \/ stdin' = [stdin EXCEPT !.unread = more, !.typed = typed]
        BY <2>4 DEF processStdinFails, Type
      <4>2. less \in Int /\ more \in Int /\ typed \in Int
        BY <1>1 DEF LoopTypes
      <4> HIDE DEF less, more, typed
      <4>3. CASE stdin' = [stdin EXCEPT !.watched = FALSE, !.unread = less]
        BY <1>1, <4>2, <4>3 DEF LoopTypes
      <4>4. CASE stdin' = [stdin EXCEPT !.unread = more, !.typed = typed]
        BY <1>1, <4>2, <4>4 DEF LoopTypes
      <4> QED  BY <4>1, <4>3, <4>4
    <3> QED  BY <1>1, <3>1, <3>2 DEF LoopTypes
  <2> QED  BY <2>1, <2>2, <2>3, <2>4
<1>5. TypeInv'
  BY <1>1, <1>2, <1>3, <1>4, RcTypesKeep DEF RcTypes, ServerTypes
<1> QED  BY <1>2, <1>3, <1>5, QuietKeeps

\* The type of a step that connects.
LEMMA ConnectTypes ==
    ASSUME TypeInv, TryConnect, UNCHANGED <<setup, printed, written, processes>>, LoopTypes',
           mConnection' = serverUp', slots' \in Nat, cmd' \in Nat,
           pc' \in {"exec", "select", "end", "crashed"}, toServer' \in Seq(Queries)
    PROVE  TypeInv'
<1>1. PICK up \in startProcess : Connected(up)
  BY DEF TryConnect
<1>2. up \in BOOLEAN /\ serverUp' = up
  BY <1>1 DEF startProcess, Connected, TypeInv, ServerTypes
<1>3. FreshReader \in Readers /\ NewConnection(conn.no + 1) \in Conns
  <2>1. <<>> \in Seq(ByteSet) /\ conn.no + 1 \in Nat
    BY EmptySeq DEF TypeInv, ServerTypes, Conns
  <2> QED  BY <2>1 DEF FreshReader, Readers, NewConnection, Conns, Links
<1>4. conn' \in Conns /\ reader' \in Readers
  <2>1. conn \in Conns /\ reader \in Readers
    BY DEF TypeInv, ServerTypes, RcTypes
  <2> QED  BY <1>1, <1>3, <2>1 DEF Connected
<1>5. RcTypes'
  BY <1>2, <1>4 DEF RcTypes, TypeInv, Places
<1>6. Commands' = Commands /\ Conns' = Conns /\ Queries' = Queries /\ SetupTypes' = SetupTypes
  BY SetupStays
<1>7. ServerTypes'
  BY <1>2, <1>4, <1>6 DEF ServerTypes, TypeInv
<1> QED  BY <1>5, <1>6, <1>7 DEF TypeInv

\* A new connection begins with nothing to read.
LEMMA ConnectKeeps ==
    ASSUME IInv, TypeInv', ~mConnection, UNCHANGED <<setup, printed>>, TryConnect,
           mConnection' = serverUp',
           pc' \in Running => cmd' \in Commands, pc' \notin {"read", "parse", "start"}
    PROVE  IInv' /\ Maps /\ InFlight' = InFlight
<1>1. PICK up \in startProcess : Connected(up)
  BY DEF TryConnect
<1>2. /\ conn.link \in {"none", "closed"} /\ InFlight = <<>> /\ serverUp \in BOOLEAN /\ serverUp' = up
      /\ serverUp => up
  BY <1>1 DEF IInv, RcInv, TypeInv, ServerTypes, startProcess, Connected
<1>3. CASE up
  <2>1. conn' = NewConnection(conn.no + 1) /\ reader' = FreshReader
    BY <1>1, <1>3 DEF Connected
  <2>2. /\ conn'.link = "backlog" /\ conn'.wire = <<>> /\ conn'.unsent = <<>> /\ conn'.mPendingWrite = 0
        /\ reader'.mReadBuffer = <<>> /\ reader'.mReadBufferPos = 0 /\ reader'.mPendingRead = 0
        /\ reader'.eof = FALSE
    BY <2>1 DEF NewConnection, FreshReader
  <2>3. Len(<<>>) = 0 /\ <<>> \in Seq(ByteSet) /\ SocketSize \in Nat
    BY EmptySeq, SizesAssumption
  <2>4. Stream' = <<>>
    <3>1. Stream' = SubSeq(<<>>, 0 + 1, Len(<<>>)) \o <<>> \o <<>>
      BY <2>2 DEF Stream, Unread
    <3>2. SubSeq(<<>>, 0 + 1, Len(<<>>)) = <<>>
      BY <2>3, SubSeqEmpty
    <3>3. <<>> \o <<>> = <<>>
      BY <2>3, ConcatEmptySeq
    <3> QED  BY <3>1, <3>2, <3>3
  <2>5. InFlight' = <<>>
    <3>1. InFlight' = MessagesIn(Stream')
      BY DEF InFlight, MessagesIn, EndsMessage
    <3>2. \A k \in 1..Len(<<>>) : FALSE
      BY <2>3
    <3>3. MessagesIn(<<>>) = <<>>
      BY <2>3, <3>2, NoMessages
    <3> QED  BY <2>4, <3>1, <3>3
  <2>6. BooksInv'
    BY <2>2, <2>3 DEF BooksInv, Books
  <2>7. RcInv'
    BY <1>2, <1>3, <2>2, SetupStays DEF RcInv
  <2>8. FrameInv'
    <3>1. Framed(<<>>) /\ StartsRight(<<>>, 0) /\ EndsWhole(<<>>, 0)
      BY NothingIsWhole DEF Whole
    <3> QED  BY <2>2, <2>4, <3>1 DEF FrameInv, Framed, StartsRight, EndsWhole, Follows, Size
  <2>9. Queue!Open
    BY <1>2, <1>3, <2>2, <2>5 DEF Queue!Open
  <2> QED  BY <1>2, <2>5, <2>6, <2>7, <2>8, <2>9 DEF IInv, Maps, Queue!Next
<1>4. CASE ~up
  <2>1. UNCHANGED <<conn, reader, serverUp, mConnection>>
    <3>1. UNCHANGED <<conn, reader>>
      BY <1>1, <1>4 DEF Connected
    <3>2. ~serverUp /\ ~serverUp'
      BY <1>2, <1>4
    <3>3. mConnection' = FALSE /\ mConnection \in BOOLEAN
      BY <1>2, <1>4, <3>2 DEF IInv, TypeInv, RcTypes, ServerTypes
    <3> QED  BY <3>1, <3>2, <3>3, <1>2 DEF TypeInv, ServerTypes
  <2>2. Stream' = Stream
    BY <2>1 DEF Stream
  <2>3. InFlight' = InFlight
    BY <2>2 DEF InFlight, MessagesIn, EndsMessage
  <2> QED  BY <2>1, <2>3, QuietKeeps
<1> QED  BY <1>3, <1>4

LEMMA StartKeeps ==
    ASSUME IInv, Start
    PROVE  IInv' /\ Maps /\ InFlight' = InFlight
<1>1. TypeInv /\ LoopTypes /\ RcTypes /\ ServerTypes /\ ~mConnection /\ pc = "start"
  BY DEF IInv, TypeInv, RcInv, Start
<1>2. TryConnect /\ mConnection' = serverUp' /\ toServer' = <<>> /\ pc' = "exec"
      /\ UNCHANGED <<setup, cmd, slots, loopVars, printed, cutShort, written, processes>>
  BY DEF Start
<1>3. TypeInv'
  BY <1>1, <1>2, ConnectTypes, EmptySeq DEF LoopTypes, loopVars, RcTypes
<1> QED  BY <1>1, <1>2, <1>3, ConnectKeeps DEF Running

LEMMA connectAndSendKeeps ==
    ASSUME IInv, connectAndSend
    PROVE  IInv' /\ Maps /\ InFlight' = InFlight
<1>1. /\ TypeInv /\ LoopTypes /\ RcTypes /\ ServerTypes /\ ~mConnection /\ cmd \in Commands
      /\ TryConnect /\ WatchStdin /\ UNCHANGED <<setup, ready, printed, cutShort, written, processes>>
  BY DEF IInv, TypeInv, connectAndSend
<1>2. /\ mConnection' = serverUp' /\ slots' \in Nat /\ cmd' \in Nat
      /\ pc' \in {"select", "crashed", "exec"}
      /\ pc' = "select" => cmd' = cmd
      /\ pipe' \in {pipe, pipe \cup {"wake"}} /\ mQuit' \in {mQuit, FALSE} /\ timer' \in {timer, "off", "set"}
  <2>1. serverUp' \in BOOLEAN
    BY <1>1 DEF TryConnect, Connected, startProcess, ServerTypes
  <2>2. CASE serverUp'
    <3>1. AddTimer /\ mConnection' = TRUE /\ slots' = 1 /\ pc' = "select" /\ UNCHANGED cmd
      BY <2>2 DEF connectAndSend
    <3>2. mConnection' = serverUp'
      BY <2>1, <2>2, <3>1
    <3> QED  BY <1>1, <3>1, <3>2 DEF AddTimer, RcTypes
  <2>3. CASE ~serverUp'
    <3>1. /\ UNCHANGED <<mConnection, slots, timer, mQuit>> /\ cmd' \in {cmd, cmd + 1}
          /\ pc' \in {"crashed", "exec"} /\ pipe' \in {pipe, pipe \cup {"wake"}}
      BY <2>3 DEF connectAndSend
    <3>2. mConnection' = serverUp'
      BY <1>1, <2>1, <2>3, <3>1 DEF RcTypes
    <3>3. slots' \in Nat /\ cmd' \in Nat
      BY <1>1, <3>1 DEF RcTypes
    <3> QED  BY <3>1, <3>2, <3>3
  <2> QED  BY <2>2, <2>3
<1>3. toServer' \in Seq(Queries)
  <2>1. Asked(0) \in Queries /\ toServer \in Seq(Queries)
    BY <1>1, AskedIsQuery DEF ServerTypes
  <2>2. toServer' \in {<<Asked(0)>>, toServer}
    BY DEF connectAndSend
  <2> QED  BY <2>1, <2>2, OneQuery
<1>4. LoopTypes'
  BY <1>1, <1>2, WatchStdinTypes DEF LoopTypes
<1>5. TypeInv'
  BY <1>1, <1>2, <1>3, <1>4, ConnectTypes DEF RcTypes
<1>6. pc' \in Running => cmd' \in Commands
  BY <1>1, <1>2, SetupStays DEF Running
<1> QED  BY <1>1, <1>2, <1>5, <1>6, SetupStays, ConnectKeeps

LEMMA processStdinKeeps ==
    ASSUME IInv, processStdin
    PROVE  IInv' /\ Maps
<1>1. /\ TypeInv /\ LoopTypes /\ RcTypes /\ ServerTypes /\ cmd \in Commands
      /\ UNCHANGED <<setup, cmd, pipe, ready, mQuit, timer, printed, cutShort, written, processes>>
  BY RunningHasCommand DEF IInv, TypeInv, processStdin, Running
<1>2. stdin' \in [watched : BOOLEAN, unread : Int, held : Int, typed : Int]
  <2>1. PICK n \in 1..stdin.unread : stdin' = [stdin EXCEPT !.unread = @ - n, !.held = @ + n - 1]
    BY DEF processStdin
  <2> DEFINE left == stdin.unread - n  held == stdin.held + n - 1
  <2>2. stdin' = [stdin EXCEPT !.unread = left, !.held = held]
    BY <2>1
  <2>3. left \in Int /\ held \in Int
    BY <1>1, <2>1 DEF LoopTypes
  <2> HIDE DEF left, held
  <2> QED  BY <1>1, <2>2, <2>3 DEF LoopTypes
<1>3. LoopTypes'
  BY <1>1, <1>2 DEF LoopTypes
<1>4. Request \in Queries /\ toServer \in Seq(Queries) /\ Append(toServer, Request) \in Seq(Queries)
  <2>1. Request \in Queries /\ toServer \in Seq(Queries)
    BY <1>1, AskedIsQuery DEF ServerTypes
  <2> QED  BY <2>1, AppendProperties
<1>5. CASE mConnection
  <2>1. /\ UNCHANGED <<mConnection, slots, reader, serverUp, conn>> /\ pc' = AfterStdin
        /\ toServer' \in {toServer, Append(toServer, Request)}
    BY <1>5 DEF processStdin, Written
  <2>2. pc' \in {"read", "end"}
    BY <2>1 DEF AfterStdin
  <2>3. TypeInv'
    BY <1>1, <1>3, <1>4, <2>1, <2>2, RcTypesKeep DEF RcTypes, ServerTypes, Places
  <2>4. pc' \in Running => cmd' \in Commands
    BY <1>1
  <2> QED  BY <1>1, <1>5, <2>1, <2>2, <2>3, <2>4, SetupStays, QuietKeeps
<1>6. CASE ~mConnection
  <2>1. /\ TryConnect /\ mConnection' = serverUp' /\ slots' = 0
        /\ toServer' \in {<<Request>>, <<>>} /\ pc' \in {"crashed", "end"}
    BY <1>6 DEF processStdin
  <2>2. toServer' \in Seq(Queries)
    BY <1>4, <2>1, EmptySeq, OneQuery
  <2>3. TypeInv'
    BY <1>1, <1>3, <2>1, <2>2, ConnectTypes DEF RcTypes
  <2>4. pc' \in Running => cmd' \in Commands
    BY <1>1
  <2> QED  BY <1>1, <1>6, <2>1, <2>3, <2>4, SetupStays, ConnectKeeps
<1> QED  BY <1>5, <1>6

\* rc's reading steps leave these alone.
Reading == UNCHANGED <<setup, cmd, slots, ready, mQuit, timer, stdin, cutShort, serverUp, toServer,
                       written, processes>>

\* A reading step, from the bytes that are left for rc behind it.
LEMMA ReadingTypes ==
    ASSUME IInv, Reading, pc' \in Places, mConnection' \in BOOLEAN, pipe' \subseteq {"wake", "q"},
           reader' \in Readers, printed' \in Seq(Prints), conn' \in Conns
    PROVE  TypeInv'
<1>1. TypeInv /\ LoopTypes /\ RcTypes /\ ServerTypes
  BY DEF IInv, TypeInv
<1>2. LoopTypes' /\ RcTypes'
  BY <1>1 DEF Reading, LoopTypes, RcTypes
<1> QED  BY <1>1, <1>2, RcTypesKeep DEF Reading, ServerTypes

LEMMA ReadingKeeps ==
    ASSUME IInv, TypeInv', Reading, pc \in {"read", "parse"}, mConnection,
           conn'.link = conn.link, conn'.unsent = conn.unsent,
           conn'.mPendingWrite = conn.mPendingWrite, Len(conn'.wire) <= Len(conn.wire),
           reader'.mReadBufferPos <= Len(reader'.mReadBuffer),
           reader'.eof => conn.link = "closed" /\ conn'.wire = <<>>,
           pc' \in {"read", "parse", "dropped", "end"}, pc' \in {"read", "parse"} => mConnection',
           ~mConnection' => conn.link = "closed" /\ InFlight' = <<>>,
           Framed(Stream'), StartsRight(Stream', reader'.mPendingRead),
           EndsWhole(Stream, reader.mPendingRead) => EndsWhole(Stream', reader'.mPendingRead)
    PROVE  IInv'
<1>1. TypeInv /\ BooksInv /\ RcInv /\ FrameInv
  BY DEF IInv
<1>2. BooksInv'
  <2>1. Len(conn'.wire) \in Nat /\ Len(conn.wire) \in Nat /\ SocketSize \in Nat
    BY <1>1, LenProperties, SizesAssumption DEF TypeInv, ServerTypes, Conns
  <2>2. Books(conn')
    BY <1>1, <2>1 DEF BooksInv, Books
  <2> QED  BY <1>1, <2>2 DEF BooksInv, Reading
<1>3. RcInv'
  <2>1. cmd' \in Commands'
    BY <1>1, SetupStays DEF RcInv, Running, Reading
  <2> QED  BY <2>1 DEF RcInv
<1>4. FrameInv'
  <2> DEFINE s == Stream'
             n == reader'.mPendingRead
  <2>1. Framed(s) /\ StartsRight(s, n)
    OBVIOUS
  <2>2. conn'.link \in {"backlog", "open"} => EndsWhole(s, n)
    BY <1>1 DEF FrameInv
  <2> QED  BY <2>1, <2>2 DEF FrameInv, Framed, StartsRight, EndsWhole, Follows, Size
<1> QED  BY <1>2, <1>3, <1>4 DEF IInv

---------------------------------------------------------------------------
(* What rc has still to look at, when it reads and when it takes.          *)

LEMMA BehindInConcat ==
    ASSUME NEW S, NEW s \in Seq(S), NEW t \in Seq(S), NEW p \in 0..Len(s)
    PROVE  SubSeq(s \o t, p + 1, Len(s \o t)) = SubSeq(s, p + 1, Len(s)) \o t
<1> DEFINE st == s \o t
           a == SubSeq(s, p + 1, Len(s))
           b == SubSeq(st, p + 1, Len(st))
<1>1. /\ st \in Seq(S) /\ Len(st) = Len(s) + Len(t) /\ Len(s) \in Nat /\ Len(t) \in Nat
      /\ p \in Nat /\ p <= Len(s)
      /\ \A k \in 1..(Len(s) + Len(t)) : st[k] = IF k <= Len(s) THEN s[k] ELSE t[k - Len(s)]
  BY ConcatProperties, LenProperties
<1>2. a \in Seq(S) /\ Len(a) = Len(s) - p /\ \A k \in 1..(Len(s) - p) : a[k] = s[p + k]
  BY TwoPieces
<1> HIDE DEF st, a
<1>3. p \in 0..Len(st)
  BY <1>1
<1>4. b \in Seq(S) /\ Len(b) = Len(st) - p /\ \A k \in 1..(Len(st) - p) : b[k] = st[p + k]
  BY <1>1, <1>3, TwoPieces
<1> HIDE DEF b
<1>5. /\ a \o t \in Seq(S) /\ Len(a \o t) = Len(a) + Len(t)
      /\ \A k \in 1..(Len(a) + Len(t)) : (a \o t)[k] = IF k <= Len(a) THEN a[k] ELSE t[k - Len(a)]
  BY <1>2, ConcatProperties
<1>6. Len(b) = Len(a \o t) /\ Len(a) = Len(s) - p /\ Len(b) = Len(s) + Len(t) - p
  BY <1>1, <1>2, <1>4, <1>5
<1>7. \A k \in 1..Len(b) : b[k] = (a \o t)[k]
  <2> TAKE k \in 1..Len(b)
  <2>1. /\ k \in Nat /\ k \in 1..(Len(st) - p) /\ p + k \in 1..(Len(s) + Len(t))
        /\ k \in 1..(Len(a) + Len(t))
    BY <1>1, <1>4, <1>6
  <2>2. b[k] = st[p + k]
    BY <1>4, <2>1
  <2>3. CASE k <= Len(a)
    <3>1. k \in 1..(Len(s) - p) /\ p + k <= Len(s)
      BY <1>1, <1>6, <2>1, <2>3
    <3>2. b[k] = s[p + k] /\ (a \o t)[k] = a[k] /\ a[k] = s[p + k]
      BY <1>1, <1>2, <1>5, <2>1, <2>2, <2>3, <3>1
    <3> QED  BY <3>2
  <2>4. CASE ~(k <= Len(a))
    <3>1. ~(p + k <= Len(s)) /\ (p + k) - Len(s) = k - Len(a)
      BY <1>1, <1>6, <2>1, <2>4
    <3>2. b[k] = t[(p + k) - Len(s)] /\ (a \o t)[k] = t[k - Len(a)]
      BY <1>1, <1>5, <2>1, <2>2, <2>4, <3>1
    <3> QED  BY <3>1, <3>2
  <2> QED  BY <2>3, <2>4
<1>8. b = a \o t
  BY <1>4, <1>5, <1>6, <1>7, SeqEqual
<1> QED  BY <1>8 DEF a, b, st

LEMMA BehindTwice ==
    ASSUME NEW S, NEW s \in Seq(S), NEW p \in 0..Len(s), NEW n \in 0..(Len(s) - p)
    PROVE  SubSeq(s, (p + n) + 1, Len(s)) =
           SubSeq(SubSeq(s, p + 1, Len(s)), n + 1, Len(SubSeq(s, p + 1, Len(s))))
<1> DEFINE u == SubSeq(s, p + 1, Len(s))
           a == SubSeq(s, (p + n) + 1, Len(s))
           b == SubSeq(u, n + 1, Len(u))
<1>1. Len(s) \in Nat /\ p \in Nat /\ n \in Nat /\ p + n \in 0..Len(s) /\ p <= Len(s)
  BY LenProperties
<1>2. u \in Seq(S) /\ Len(u) = Len(s) - p /\ \A k \in 1..(Len(s) - p) : u[k] = s[p + k]
  BY TwoPieces
<1>3. a \in Seq(S) /\ Len(a) = Len(s) - (p + n) /\ \A k \in 1..(Len(s) - (p + n)) : a[k] = s[(p + n) + k]
  BY <1>1, TwoPieces
<1> HIDE DEF u, a
<1>4. n \in 0..Len(u)
  BY <1>2
<1>5. b \in Seq(S) /\ Len(b) = Len(u) - n /\ \A k \in 1..(Len(u) - n) : b[k] = u[n + k]
  BY <1>2, <1>4, TwoPieces
<1> HIDE DEF b
<1>6. Len(a) = Len(b)
  BY <1>1, <1>2, <1>3, <1>5
<1>7. \A k \in 1..Len(a) : a[k] = b[k]
  <2> TAKE k \in 1..Len(a)
  <2>1. /\ k \in 1..(Len(s) - (p + n)) /\ k \in 1..(Len(u) - n) /\ n + k \in 1..(Len(s) - p)
        /\ (p + n) + k = p + (n + k)
    BY <1>1, <1>2, <1>3
  <2>2. a[k] = s[(p + n) + k] /\ b[k] = u[n + k] /\ u[n + k] = s[p + (n + k)]
    BY <1>2, <1>3, <1>5, <2>1
  <2> QED  BY <2>1, <2>2
<1>8. a = b
  BY <1>3, <1>5, <1>6, <1>7, SeqEqual
<1> QED  BY <1>8 DEF a, b, u

\* A buffer whose position is 0 is unread.
LEMMA UnreadAll ==
    ASSUME NEW b, b.mReadBuffer \in Seq(ByteSet), b.mReadBufferPos = 0
    PROVE  Unread(b) = b.mReadBuffer
<1> DEFINE B == b.mReadBuffer
<1>1. Unread(b) = SubSeq(B, 0 + 1, Len(B)) /\ B \in Seq(ByteSet)
  BY DEF Unread
<1> HIDE DEF B
<1>2. SubSeq(B, 1, Len(B)) = B
  BY <1>1, SubSeqFull
<1>3. 0 + 1 = 1
  OBVIOUS
<1> QED  BY <1>1, <1>2, <1>3 DEF B

\* Taking n bytes takes them from what is unread.
LEMMA TakenIs ==
    ASSUME NEW b \in Readers, b.mReadBufferPos <= Len(b.mReadBuffer), NEW n \in Nat, n <= bytesAvailable(b)
    PROVE  /\ Taken(b, n) \in Readers /\ Taken(b, n).mReadBufferPos <= Len(Taken(b, n).mReadBuffer)
           /\ Taken(b, n).eof = b.eof
           /\ Unread(Taken(b, n)) = SubSeq(Unread(b), n + 1, Len(Unread(b)))
<1> DEFINE B == b.mReadBuffer
           p == b.mReadBufferPos
           u == SubSeq(B, p + 1, Len(B))
           t == Taken(b, n)
<1>1. B \in Seq(ByteSet) /\ p \in Nat /\ p <= Len(B) /\ Len(B) \in Nat /\ n <= Len(B) - p
  BY LenProperties DEF Readers, bytesAvailable
<1>2. u = Unread(b) /\ Unread(t) = SubSeq(t.mReadBuffer, t.mReadBufferPos + 1, Len(t.mReadBuffer))
  BY DEF Unread
<1>3. CASE p + n = Len(B)
  <2> DEFINE none == <<>>
  <2>1. t = [b EXCEPT !.mReadBuffer = none, !.mReadBufferPos = 0]
    BY <1>3 DEF Taken
  <2>2. none \in Seq(ByteSet) /\ Len(none) = 0
    BY EmptySeq
  <2> HIDE DEF none, t
  <2>3. t \in Readers /\ t.mReadBuffer = none /\ t.mReadBufferPos = 0 /\ t.eof = b.eof
    BY <2>1, <2>2 DEF Readers
  <2>4. Unread(t) = none
    BY <2>2, <2>3, UnreadAll
  <2>5. Unread(b) \in Seq(ByteSet) /\ Len(Unread(b)) = n
    BY <1>1, <1>3, UnreadIsSeq DEF bytesAvailable
  <2>6. SubSeq(Unread(b), n + 1, Len(Unread(b))) = none
    BY <2>5, SubSeqEmpty DEF none
  <2>7. t.mReadBufferPos <= Len(t.mReadBuffer) /\ Unread(t) = SubSeq(Unread(b), n + 1, Len(Unread(b)))
    BY <2>2, <2>3, <2>4, <2>6
  <2> QED  BY <2>3, <2>7 DEF t
<1>4. CASE p + n # Len(B)
  <2> DEFINE q == p + n
  <2>1. t = [b EXCEPT !.mReadBufferPos = q]
    BY <1>4 DEF Taken
  <2>2. q \in Nat /\ q <= Len(B)
    BY <1>1
  <2> HIDE DEF q
  <2>3. t \in Readers /\ t.mReadBuffer = B /\ t.mReadBufferPos = q /\ t.eof = b.eof
    BY <2>1, <2>2 DEF Readers
  <2>4. Unread(t) = SubSeq(B, q + 1, Len(B))
    BY <1>2, <2>3
  <2>5. SubSeq(B, (p + n) + 1, Len(B)) = SubSeq(u, n + 1, Len(u))
    <3> HIDE DEF B, p, t
    <3>1. p \in 0..Len(B) /\ n \in 0..(Len(B) - p)
      BY <1>1
    <3> QED  BY <1>1, <3>1, BehindTwice
  <2>6. Unread(t) = SubSeq(Unread(b), n + 1, Len(Unread(b)))
    BY <1>2, <2>4, <2>5 DEF q
  <2> QED  BY <2>2, <2>3, <2>6
<1> QED  BY <1>3, <1>4

\* A reading step goes on with the stream that was there.
LEMMA SameStream ==
    ASSUME Stream' = Stream
    PROVE  InFlight' = InFlight
  BY DEF InFlight, MessagesIn, EndsMessage

\* The stream in its three parts.
LEMMA StreamParts ==
    ASSUME IInv
    PROVE  /\ reader \in Readers /\ conn \in Conns /\ reader.mReadBufferPos <= Len(reader.mReadBuffer)
           /\ Unread(reader) \in Seq(ByteSet) /\ Left(conn) \in Seq(ByteSet) /\ Stream \in Seq(ByteSet)
           /\ Stream = Unread(reader) \o Left(conn) /\ Len(Unread(reader)) = bytesAvailable(reader)
           /\ Len(Stream) = bytesAvailable(reader) + Len(Left(conn))
           /\ bytesAvailable(reader) \in Nat /\ Len(Left(conn)) \in Nat
           /\ Framed(Stream) /\ StartsRight(Stream, reader.mPendingRead) /\ InFlight = MessagesIn(Stream)
           /\ reader.mPendingRead \in Nat
<1>1. /\ Unread(reader) \in Seq(ByteSet) /\ Left(conn) \in Seq(ByteSet) /\ Stream \in Seq(ByteSet)
      /\ Stream = Unread(reader) \o Left(conn) /\ Len(Unread(reader)) = bytesAvailable(reader)
  BY StreamNow DEF IInv
<1>2. Len(Unread(reader)) \in Nat /\ Len(Left(conn)) \in Nat
  BY <1>1, LenProperties
<1>3. Len(Unread(reader) \o Left(conn)) = Len(Unread(reader)) + Len(Left(conn))
  BY <1>1, ConcatProperties
<1>4. /\ reader \in Readers /\ conn \in Conns /\ reader.mReadBufferPos <= Len(reader.mReadBuffer)
      /\ Framed(Stream) /\ StartsRight(Stream, reader.mPendingRead) /\ InFlight = MessagesIn(Stream)
  BY DEF IInv, TypeInv, RcTypes, ServerTypes, BooksInv, FrameInv, InFlight
<1> QED  BY <1>1, <1>2, <1>3, <1>4 DEF Readers

\* One recv(): the bytes go from the socket to the buffer.
LEMMA readMoreStream ==
    ASSUME IInv, readMore
    PROVE  /\ reader' \in Readers /\ reader'.mReadBufferPos <= Len(reader'.mReadBuffer)
           /\ reader'.mPendingRead = reader.mPendingRead /\ reader'.eof = reader.eof
           /\ conn'.wire \in Seq(ByteSet) /\ Len(conn'.wire) <= Len(conn.wire)
           /\ Unread(reader') \o conn'.wire = Unread(reader) \o conn.wire
<1> DEFINE W == conn.wire
           B == reader.mReadBuffer
           p == reader.mReadBufferPos
           r == Min(ChunkSize, Len(W))
           M == SubSeq(W, 1, r)
           R == SubSeq(W, r + 1, Len(W))
           u == SubSeq(B, p + 1, Len(B))
           N == B \o M
           b == [reader EXCEPT !.mReadBuffer = N]
           new == SubSeq(N, p + 1, Len(N))
<1>1. W \in Seq(ByteSet) /\ B \in Seq(ByteSet) /\ p \in Nat /\ p <= Len(B) /\ reader \in Readers
  BY StreamParts DEF Conns, Readers
<1>2. r \in 0..Len(W) /\ Len(W) \in Nat /\ r \in Nat
  <2>1. Len(W) \in Nat /\ ChunkSize \in Nat
    BY <1>1, LenProperties, SizesAssumption
  <2> HIDE DEF W
  <2> QED  BY <2>1 DEF Min
<1>3. /\ conn' = [conn EXCEPT !.wire = R]
      /\ reader' = Kept(b, r)
  BY DEF readMore
<1>4. conn'.wire = R
  BY <1>3, StreamParts DEF Conns
<1>5. /\ Unread(reader) = u
      /\ reader' = IF Overflows(Len(N) + r) THEN [b EXCEPT !.mReadBuffer = new, !.mReadBufferPos = 0] ELSE b
  <2>1. b.mReadBuffer = N /\ b.mReadBufferPos = p
    BY <1>1 DEF Readers
  <2> HIDE DEF b, N
  <2> QED  BY <1>3, <2>1 DEF Kept, Unread
<1> HIDE DEF r, W
<1>6. M \in Seq(ByteSet) /\ R \in Seq(ByteSet) /\ M \o R = W /\ Len(R) <= Len(W)
  <2>1. M \in Seq(ByteSet) /\ R \in Seq(ByteSet) /\ M \o R = W /\ Len(R) = Len(W) - r
    BY <1>1, <1>2, TwoPieces
  <2> HIDE DEF M, R
  <2> QED  BY <1>2, <2>1
<1> HIDE DEF M, R, B, p
<1>7. N \in Seq(ByteSet) /\ p \in 0..Len(B) /\ p <= Len(N)
  <2>1. N \in Seq(ByteSet) /\ Len(N) = Len(B) + Len(M) /\ Len(M) \in Nat /\ Len(B) \in Nat
    BY <1>1, <1>6, ConcatProperties, LenProperties
  <2> HIDE DEF N
  <2> QED  BY <1>1, <2>1
<1>8. new = u \o M /\ u \in Seq(ByteSet) /\ new \in Seq(ByteSet)
  <2>1. new = u \o M
    BY <1>1, <1>6, <1>7, BehindInConcat
  <2>2. u \in Seq(ByteSet)
    BY <1>1, <1>7, TwoPieces
  <2> HIDE DEF u, new
  <2> QED  BY <1>6, <2>1, <2>2, ConcatProperties
<1> HIDE DEF new, N
<1>9. /\ reader' \in Readers /\ reader'.mReadBufferPos <= Len(reader'.mReadBuffer)
      /\ reader'.mPendingRead = reader.mPendingRead /\ reader'.eof = reader.eof
      /\ Unread(reader') = new
  <2>1. CASE Overflows(Len(N) + r)
    <3>1. reader' = [b EXCEPT !.mReadBuffer = new, !.mReadBufferPos = 0]
      BY <1>5, <2>1
    <3>2. /\ reader' \in Readers /\ reader'.mReadBuffer = new /\ reader'.mReadBufferPos = 0
          /\ reader'.mPendingRead = reader.mPendingRead /\ reader'.eof = reader.eof
      BY <1>1, <1>7, <1>8, <3>1 DEF Readers
    <3>3. Unread(reader') = new
      BY <1>8, <3>2, UnreadAll
    <3>4. Len(new) \in Nat
      BY <1>8, LenProperties
    <3> QED  BY <3>2, <3>3, <3>4
  <2>2. CASE ~Overflows(Len(N) + r)
    <3>1. reader' = b
      BY <1>5, <2>2
    <3>2. /\ reader' \in Readers /\ reader'.mReadBuffer = N /\ reader'.mReadBufferPos = p
          /\ reader'.mPendingRead = reader.mPendingRead /\ reader'.eof = reader.eof
      BY <1>1, <1>7, <3>1 DEF Readers, p
    <3>3. Unread(reader') = new
      BY <3>2 DEF Unread, new
    <3> QED  BY <1>7, <3>2, <3>3
  <2> QED  BY <2>1, <2>2
<1>10. Unread(reader') \o conn'.wire = Unread(reader) \o conn.wire
  <2>1. Unread(reader') \o conn'.wire = (u \o M) \o R
    BY <1>4, <1>8, <1>9
  <2>2. Unread(reader) \o conn.wire = u \o (M \o R)
    BY <1>5, <1>6 DEF W
  <2>3. (u \o M) \o R = u \o (M \o R)
    <3> HIDE DEF u
    <3>1. u \in Seq(ByteSet) /\ M \in Seq(ByteSet) /\ R \in Seq(ByteSet)
      BY <1>6, <1>8
    <3> QED  BY <3>1, ConcatAssociative, SMTT(30)
  <2> QED  BY <2>1, <2>2, <2>3
<1> QED  BY <1>4, <1>6, <1>9, <1>10 DEF W

LEMMA readMoreKeeps ==
    ASSUME IInv, readMore
    PROVE  IInv' /\ Maps /\ InFlight' = InFlight
<1>1. /\ TypeInv /\ BooksInv /\ RcInv /\ FrameInv /\ reader \in Readers /\ conn \in Conns
      /\ LoopTypes /\ RcTypes
  BY DEF IInv, TypeInv, RcTypes, ServerTypes
<1>2. /\ reader' \in Readers /\ reader'.mReadBufferPos <= Len(reader'.mReadBuffer)
      /\ reader'.mPendingRead = reader.mPendingRead /\ reader'.eof = reader.eof
      /\ conn'.wire \in Seq(ByteSet) /\ Len(conn'.wire) <= Len(conn.wire)
      /\ Unread(reader') \o conn'.wire = Unread(reader) \o conn.wire
  BY readMoreStream
<1>3. /\ pc = "read" /\ conn.wire # <<>> /\ pc' \in {"read", "dropped"} /\ mConnection
      /\ Reading /\ UNCHANGED <<mConnection, pipe, printed>>
  BY <1>1 DEF readMore, Reading, loopVars, RcInv
<1>4. /\ conn' \in Conns /\ conn'.link = conn.link /\ conn'.unsent = conn.unsent
      /\ conn'.mPendingWrite = conn.mPendingWrite
  <2> DEFINE r == Min(ChunkSize, Len(conn.wire))
             R == SubSeq(conn.wire, r + 1, Len(conn.wire))
  <2>1. conn' = [conn EXCEPT !.wire = R]
    BY DEF readMore
  <2> HIDE DEF R
  <2>2. conn'.wire = R
    BY <1>1, <2>1 DEF Conns
  <2> QED  BY <1>1, <1>2, <2>1, <2>2 DEF Conns
<1>5. Stream' = Stream
  <2> DEFINE V == IF conn.link = "open" THEN conn.unsent ELSE <<>>
  <2>1. Stream' = (Unread(reader') \o conn'.wire) \o V
    BY <1>4 DEF Stream, Unread
  <2>2. Stream = (Unread(reader) \o conn.wire) \o V
    BY DEF Stream
  <2> QED  BY <1>2, <2>1, <2>2
<1>6. TypeInv'
  BY <1>1, <1>2, <1>3, <1>4, ReadingTypes DEF Places, LoopTypes, RcTypes
<1>7. Framed(Stream') /\ StartsRight(Stream', reader'.mPendingRead)
  BY <1>1, <1>2, <1>5 DEF FrameInv
<1>8. EndsWhole(Stream, reader.mPendingRead) => EndsWhole(Stream', reader'.mPendingRead)
  BY <1>2, <1>5
<1>9. ~reader'.eof
  BY <1>1, <1>2, <1>3 DEF RcInv, Readers
<1>10. IInv'
  BY <1>2, <1>3, <1>4, <1>6, <1>7, <1>8, <1>9, ReadingKeeps
<1>11. UNCHANGED Queue!vars
  BY <1>3, <1>4, <1>5, SameStream DEF Queue!vars, Reading
<1> QED  BY <1>5, <1>10, <1>11, SameStream DEF Maps

LEMMA readEndKeeps ==
    ASSUME IInv, readEnd
    PROVE  IInv' /\ Maps /\ InFlight' = InFlight
<1>1. /\ TypeInv /\ BooksInv /\ RcInv /\ FrameInv /\ reader \in Readers /\ conn \in Conns
      /\ LoopTypes /\ RcTypes
  BY DEF IInv, TypeInv, RcTypes, ServerTypes
<1>2. /\ pc = "read" /\ conn.wire = <<>> /\ pc' = "parse" /\ mConnection
      /\ Reading /\ UNCHANGED <<mConnection, pipe, printed, conn>>
  BY <1>1 DEF readEnd, Reading, loopVars, serverVars, RcInv
<1>3. /\ reader' \in Readers /\ reader'.mReadBuffer = reader.mReadBuffer
      /\ reader'.mReadBufferPos = reader.mReadBufferPos
      /\ reader'.mPendingRead = reader.mPendingRead
      /\ reader'.eof => conn.link = "closed"
  <2> DEFINE e == conn.link = "closed"
  <2>1. reader' = [reader EXCEPT !.eof = e] /\ e \in BOOLEAN
    BY DEF readEnd
  <2> HIDE DEF e
  <2>2. reader' \in Readers /\ reader'.eof = e
    BY <1>1, <2>1 DEF Readers
  <2> QED  BY <1>1, <2>1, <2>2 DEF Readers, e
<1>4. Stream' = Stream
  BY <1>2, <1>3 DEF Stream, Unread
<1>5. TypeInv'
  BY <1>1, <1>2, <1>3, ReadingTypes DEF Places, LoopTypes, RcTypes
<1>6. Framed(Stream') /\ StartsRight(Stream', reader'.mPendingRead)
  BY <1>1, <1>3, <1>4 DEF FrameInv
<1>7. EndsWhole(Stream, reader.mPendingRead) => EndsWhole(Stream', reader'.mPendingRead)
  BY <1>3, <1>4
<1>8. Len(conn'.wire) <= Len(conn.wire) /\ reader'.mReadBufferPos <= Len(reader'.mReadBuffer)
  BY <1>1, <1>2, <1>3, LenProperties DEF BooksInv, Conns
<1>9. IInv'
  BY <1>2, <1>3, <1>5, <1>6, <1>7, <1>8, ReadingKeeps
<1>10. UNCHANGED Queue!vars
  BY <1>2, <1>4, SameStream DEF Queue!vars, Reading
<1> QED  BY <1>4, <1>9, <1>10, SameStream DEF Maps

\* The next byte rc looks at.
LEMMA NextIsFirst ==
    ASSUME IInv, bytesAvailable(reader) > 0
    PROVE  NextByte(reader) = Stream[1]
<1> DEFINE U == Unread(reader)
           L == Left(conn)
           B == reader.mReadBuffer
           p == reader.mReadBufferPos
<1>1. /\ U \in Seq(ByteSet) /\ L \in Seq(ByteSet) /\ Stream = U \o L /\ Len(U) = bytesAvailable(reader)
      /\ Len(U) \in Nat
  BY StreamParts
<1>2. B \in Seq(ByteSet) /\ p \in Nat /\ p <= Len(B) /\ U = SubSeq(B, p + 1, Len(B)) /\ Len(U) = Len(B) - p
  BY <1>1, StreamParts DEF Readers, Unread, bytesAvailable
<1>3. NextByte(reader) = B[p + 1]
  BY DEF NextByte
<1> HIDE DEF B, p, U, L
<1>4. p \in 0..Len(B) /\ 1 \in 1..(Len(B) - p) /\ 1 \in 1..Len(U)
  BY <1>1, <1>2, LenProperties
<1>5. U[1] = B[p + 1]
  BY <1>2, <1>4, TwoPieces
<1>6. (U \o L)[1] = U[1]
  BY <1>1, <1>4, FrontOfConcat
<1> QED  BY <1>1, <1>3, <1>5, <1>6

\* rc takes n bytes of what it has.
LEMMA TakesFromStream ==
    ASSUME IInv, NEW n \in Nat, n <= bytesAvailable(reader), n > 0, NEW k,
           reader' = [Taken(reader, n) EXCEPT !.mPendingRead = k], k \in Nat, UNCHANGED conn
    PROVE  /\ reader' \in Readers /\ reader'.mReadBufferPos <= Len(reader'.mReadBuffer)
           /\ reader'.mPendingRead = k /\ reader'.eof = reader.eof
           /\ Stream' = SubSeq(Stream, n + 1, Len(Stream)) /\ n <= Len(Stream)
<1> DEFINE t == Taken(reader, n)
           U == Unread(reader)
           L == Left(conn)
<1>1. /\ U \in Seq(ByteSet) /\ L \in Seq(ByteSet) /\ Stream = U \o L /\ Len(U) = bytesAvailable(reader)
      /\ Len(U) \in Nat /\ Len(L) \in Nat /\ Len(Stream) = Len(U) + Len(L)
      /\ reader \in Readers /\ reader.mReadBufferPos <= Len(reader.mReadBuffer)
  BY StreamParts
<1>2. t \in Readers /\ t.mReadBufferPos <= Len(t.mReadBuffer) /\ t.eof = reader.eof
      /\ Unread(t) = SubSeq(U, n + 1, Len(U))
  BY <1>1, TakenIs
<1>3. reader' = [t EXCEPT !.mPendingRead = k]
  OBVIOUS
<1> HIDE DEF t
<1>4. /\ reader' \in Readers /\ reader'.mReadBuffer = t.mReadBuffer /\ reader'.mReadBufferPos = t.mReadBufferPos
      /\ reader'.mPendingRead = k /\ reader'.eof = reader.eof
  BY <1>2, <1>3 DEF Readers
<1>5. Unread(reader') = Unread(t)
  BY <1>4 DEF Unread
<1>6. Stream' = Unread(reader') \o L
  <2>1. Stream' = StreamIs(reader', conn)
    BY DEF Stream, StreamIs, Unread
  <2>2. conn.wire \in Seq(ByteSet) /\ conn.unsent \in Seq(ByteSet)
    BY StreamParts DEF Conns
  <2>3. reader'.mReadBufferPos <= Len(reader'.mReadBuffer)
    BY <1>2, <1>4
  <2>4. StreamIs(reader', conn) = Unread(reader') \o L
    BY <1>4, <2>2, <2>3, StreamIsSeq
  <2> QED  BY <2>1, <2>4
<1> HIDE DEF U, L
<1>7. Stream' = SubSeq(Stream, n + 1, Len(Stream)) /\ n <= Len(Stream)
  <2>1. n \in 0..Len(U) /\ n <= Len(Stream)
    BY <1>1
  <2>2. SubSeq(U \o L, n + 1, Len(U \o L)) = SubSeq(U, n + 1, Len(U)) \o L
    BY <1>1, <2>1, BehindInConcat
  <2> QED  BY <1>1, <1>2, <1>5, <1>6, <2>1, <2>2
<1> QED  BY <1>2, <1>4, <1>7

LEMMA parseHeaderKeeps ==
    ASSUME IInv, parseHeader
    PROVE  IInv' /\ Maps /\ InFlight' = InFlight
<1> DEFINE k == Length(reader)
           s == Stream
           r == Stream'
<1>1. /\ TypeInv /\ BooksInv /\ RcInv /\ FrameInv /\ reader \in Readers /\ conn \in Conns
      /\ LoopTypes /\ RcTypes
  BY DEF IInv, TypeInv, RcTypes, ServerTypes
<1>2. /\ pc = "parse" /\ pc' = "parse" /\ mConnection /\ UNCHANGED <<mConnection, pipe, printed, conn>>
      /\ Reading /\ HeaderThere(reader) /\ reader' = [Taken(reader, HeaderSize) EXCEPT !.mPendingRead = k]
  BY <1>1 DEF parseHeader, Reading, loopVars, serverVars, RcInv
<1>3. /\ reader.mPendingRead = 0 /\ HeaderSize \in Nat /\ HeaderSize > 0
      /\ HeaderSize <= bytesAvailable(reader) /\ bytesAvailable(reader) \in Nat
  BY <1>2, StreamParts, SizesAssumption DEF HeaderThere
<1>4. /\ s \in Seq(ByteSet) /\ Framed(s) /\ StartsRight(s, 0) /\ HeaderSize <= Len(s)
  <2>1. /\ s \in Seq(ByteSet) /\ Framed(s) /\ StartsRight(s, reader.mPendingRead)
        /\ Len(s) = bytesAvailable(reader) + Len(Left(conn)) /\ Len(Left(conn)) \in Nat
    BY StreamParts
  <2> HIDE DEF s
  <2> QED  BY <1>3, <2>1
<1>5. k = BodySize[s[1][2]] /\ k \in Nat
  <2>1. NextByte(reader) = s[1]
    BY <1>3, NextIsFirst
  <2>2. 1 \in 1..Len(s) /\ s # <<>>
    <3>1. Len(s) \in Nat
      BY <1>4, LenProperties
    <3> HIDE DEF s
    <3> QED  BY <1>3, <1>4, <3>1, EmptySeq
  <2>3. s[1] \in ByteSet /\ s[1][3] = 1
    <3> HIDE DEF s
    <3> QED  BY <1>4, <2>2, ElementOfSeq DEF StartsRight
  <2>4. BodySize[s[1][2]] \in Nat
    <3> HIDE DEF s
    <3> QED  BY <2>3, ByteHas
  <2> QED  BY <2>1, <2>3, <2>4 DEF Length
<1> HIDE DEF k
<1>6. /\ reader' \in Readers /\ reader'.mReadBufferPos <= Len(reader'.mReadBuffer)
      /\ reader'.mPendingRead = k /\ reader'.eof = reader.eof
      /\ r = SubSeq(s, HeaderSize + 1, Len(s))
  BY <1>2, <1>3, <1>5, TakesFromStream
<1>7. /\ r \in Seq(ByteSet) /\ Framed(r) /\ StartsRight(r, k)
      /\ EndsWhole(s, 0) => EndsWhole(r, k)
      /\ MessagesIn(r) = MessagesIn(s)
  <2> HIDE DEF s, r
  <2> QED  BY <1>4, <1>5, <1>6, HeaderTaken, ZenonT(30)
<1>8. TypeInv'
  BY <1>1, <1>2, <1>6, ReadingTypes DEF Places, LoopTypes, RcTypes
<1>9. Framed(Stream') /\ StartsRight(Stream', reader'.mPendingRead)
  BY <1>6, <1>7
<1>10. EndsWhole(Stream, reader.mPendingRead) => EndsWhole(Stream', reader'.mPendingRead)
  BY <1>3, <1>6, <1>7
<1>11. /\ Len(conn'.wire) <= Len(conn.wire)
       /\ reader'.eof => conn.link = "closed" /\ conn'.wire = <<>>
  BY <1>1, <1>2, <1>6, LenProperties DEF RcInv, Conns
<1>12. IInv'
  BY <1>2, <1>6, <1>8, <1>9, <1>10, <1>11, ReadingKeeps
<1>13. InFlight' = InFlight
  <2>1. InFlight' = MessagesIn(r) /\ InFlight = MessagesIn(s)
    BY DEF InFlight, MessagesIn, EndsMessage
  <2> QED  BY <1>7, <2>1
<1>14. UNCHANGED Queue!vars
  BY <1>2, <1>13 DEF Queue!vars, Reading
<1> QED  BY <1>12, <1>13, <1>14 DEF Maps

LEMMA OneMore ==
    ASSUME NEW S, NEW s \in Seq(S), NEW e \in S
    PROVE  Append(s, e) \in Seq(S) /\ Len(Append(s, e)) = Len(s) + 1
           /\ \A k \in 1..Len(s) : Append(s, e)[k] = s[k]
           /\ Append(s, e)[Len(s) + 1] = e
  BY AppendProperties

LEMMA HeadAndRest ==
    ASSUME NEW S, NEW m \in S, NEW q \in Seq(S)
    PROVE  <<m>> \o q # <<>> /\ Head(<<m>> \o q) = m /\ Tail(<<m>> \o q) = q
<1> DEFINE one == <<m>>
           s == one \o q
           t == Tail(s)
<1>1. one \in Seq(S) /\ Len(one) = 1 /\ one[1] = m
  OBVIOUS
<1> HIDE DEF one
<1>2. /\ s \in Seq(S) /\ Len(s) = 1 + Len(q) /\ Len(q) \in Nat
      /\ \A k \in 1..(1 + Len(q)) : s[k] = IF k <= 1 THEN one[k] ELSE q[k - 1]
  <2>1. /\ s \in Seq(S) /\ Len(s) = Len(one) + Len(q)
        /\ \A k \in 1..(Len(one) + Len(q)) : s[k] = IF k <= Len(one) THEN one[k] ELSE q[k - Len(one)]
    BY <1>1, ConcatProperties
  <2>2. Len(q) \in Nat
    BY LenProperties
  <2> HIDE DEF s
  <2> QED  BY <1>1, <2>1, <2>2
<1> HIDE DEF s
<1>3. s # <<>>
  BY <1>2, EmptySeq
<1>4. Head(s) = m
  <2>1. Head(s) = s[1]
    BY <1>2, <1>3
  <2>2. 1 \in 1..(1 + Len(q))
    BY <1>2
  <2> QED  BY <1>1, <1>2, <2>1, <2>2
<1>5. t \in Seq(S) /\ Len(t) = Len(s) - 1 /\ \A k \in 1..Len(t) : t[k] = s[k + 1]
  BY <1>2, <1>3, HeadTailProperties
<1> HIDE DEF t
<1>6. \A k \in 1..Len(t) : t[k] = q[k]
  <2> TAKE k \in 1..Len(t)
  <2>1. k + 1 \in 1..(1 + Len(q)) /\ ~(k + 1 <= 1) /\ (k + 1) - 1 = k
    BY <1>2, <1>5
  <2> QED  BY <1>2, <1>5, <2>1
<1>7. t = q
  BY <1>2, <1>5, <1>6, SeqEqual
<1> QED  BY <1>3, <1>4, <1>7 DEF s, t, one

\* What rc took, one message longer.
LEMMA OnePrintMore ==
    ASSUME NEW ps \in Seq(Prints), NEW e \in Prints
    PROVE  LET more == Append(ps, e)
           IN /\ more \in Seq(Prints)
              /\ [k \in DOMAIN more |-> more[k].message] = Append([k \in DOMAIN ps |-> ps[k].message], e.message)
<1> DEFINE more == Append(ps, e)
           M(p) == [k \in 1..Len(p) |-> p[k].message]
           old == M(ps)
           new == M(more)
           m == e.message
<1>1. /\ more \in Seq(Prints) /\ Len(more) = Len(ps) + 1 /\ Len(ps) \in Nat
      /\ \A k \in 1..Len(ps) : more[k] = ps[k]
      /\ more[Len(ps) + 1] = e
  BY OneMore, LenProperties
<1> HIDE DEF more
<1>2. /\ [k \in DOMAIN more |-> more[k].message] = new
      /\ [k \in DOMAIN ps |-> ps[k].message] = old
  BY <1>1, LenProperties
<1>3. m \in Messages /\ \A k \in 1..Len(ps) : ps[k].message \in Messages
  <2>1. \A p \in Prints : p.message \in Messages
    BY DEF Prints
  <2>2. \A k \in 1..Len(ps) : ps[k] \in Prints
    BY ElementOfSeq
  <2> QED  BY <2>1, <2>2
<1>4. \A k \in 1..Len(more) : more[k].message \in Messages
  <2>1. \A p \in Prints : p.message \in Messages
    BY DEF Prints
  <2>2. \A k \in 1..Len(more) : more[k] \in Prints
    BY <1>1, ElementOfSeq
  <2> QED  BY <2>1, <2>2
<1>5. old \in Seq(Messages) /\ Len(old) = Len(ps) /\ \A k \in 1..Len(ps) : old[k] = ps[k].message
  BY <1>1, <1>3
<1>6. new \in Seq(Messages) /\ Len(new) = Len(more) /\ \A k \in 1..Len(more) : new[k] = more[k].message
  BY <1>1, <1>4
<1>7. m = e.message
  OBVIOUS
<1> HIDE DEF M, old, new, m
<1>8. /\ Append(old, m) \in Seq(Messages) /\ Len(Append(old, m)) = Len(old) + 1
      /\ \A k \in 1..Len(old) : Append(old, m)[k] = old[k]
      /\ Append(old, m)[Len(old) + 1] = m
  BY <1>3, <1>5, OneMore
<1>9. Len(new) = Len(Append(old, m))
  BY <1>1, <1>5, <1>6, <1>8
<1>10. \A k \in 1..Len(new) : new[k] = Append(old, m)[k]
  <2> TAKE k \in 1..Len(new)
  <2>1. CASE k \in 1..Len(ps)
    <3>1. k \in 1..Len(more) /\ k \in 1..Len(old)
      BY <1>5, <1>6, <2>1
    <3>2. new[k] = more[k].message /\ more[k] = ps[k]
      BY <1>1, <1>6, <2>1, <3>1
    <3>3. Append(old, m)[k] = old[k] /\ old[k] = ps[k].message
      BY <1>5, <1>8, <2>1, <3>1
    <3> QED  BY <3>2, <3>3
  <2>2. CASE k = Len(ps) + 1
    <3>1. new[k] = e.message
      <4>1. new[k] = more[k].message /\ more[k] = e
        BY <1>1, <1>6, <2>2
      <4> QED  BY <4>1
    <3>2. Append(old, m)[k] = m
      BY <1>5, <1>8, <2>2
    <3> QED  BY <1>7, <3>1, <3>2
  <2>3. k \in 1..Len(ps) \/ k = Len(ps) + 1
    <3>1. k \in 1..(Len(ps) + 1) /\ Len(ps) \in Nat
      BY <1>1, <1>6
    <3> QED  BY <3>1
  <2> QED  BY <2>1, <2>2, <2>3
<1>11. new = Append(old, m)
  BY <1>6, <1>8, <1>9, <1>10, SeqEqual
<1> QED  BY <1>1, <1>2, <1>11 DEF more, m

\* A whole message is printed.
Taking ==
    /\ InFlight # <<>> /\ InFlight' = Tail(InFlight)
    /\ printed' = Append(printed, [during |-> cmd, message |-> Head(InFlight), copies |-> slots])

LEMMA parseMessageKeeps ==
    ASSUME IInv, parseMessage
    PROVE  IInv' /\ Maps /\ Taking
<1> DEFINE n == reader.mPendingRead
           s == Stream
           r == Stream'
           byte == NextByte(reader)
           m == MessageOf(byte)
           e == [during |-> cmd, message |-> <<byte[1], byte[2]>>, copies |-> slots]
<1>1. /\ TypeInv /\ BooksInv /\ RcInv /\ FrameInv /\ reader \in Readers /\ conn \in Conns
      /\ LoopTypes /\ RcTypes
  BY DEF IInv, TypeInv, RcTypes, ServerTypes
<1>2. /\ pc = "parse" /\ pc' = "parse" /\ mConnection /\ UNCHANGED <<mConnection, pipe, conn>>
      /\ Reading /\ BodyThere(reader) /\ reader' = [Taken(reader, n) EXCEPT !.mPendingRead = 0]
      /\ printed' = Append(printed, e)
  BY <1>1 DEF parseMessage, Reading, loopVars, serverVars, RcInv
<1>3. n \in Nat /\ n > 0 /\ n <= bytesAvailable(reader) /\ bytesAvailable(reader) \in Nat
  BY <1>2, StreamParts DEF BodyThere
<1>4. s \in Seq(ByteSet) /\ Framed(s) /\ StartsRight(s, n)
  BY StreamParts
<1>5. /\ reader' \in Readers /\ reader'.mReadBufferPos <= Len(reader'.mReadBuffer)
      /\ reader'.mPendingRead = 0 /\ reader'.eof = reader.eof
      /\ r = SubSeq(s, n + 1, Len(s)) /\ n <= Len(s)
  BY <1>2, <1>3, TakesFromStream
<1>6. /\ s[1] \in ByteSet /\ r \in Seq(ByteSet) /\ Framed(r) /\ StartsRight(r, 0)
      /\ EndsWhole(s, n) => EndsWhole(r, 0)
      /\ MessagesIn(s) = <<MessageOf(s[1])>> \o MessagesIn(r)
      /\ MessagesIn(r) \in Seq(Messages)
  <2> HIDE DEF s, r, n
  <2>1. n \in Nat \ {0}
    BY <1>3
  <2> QED  BY <1>4, <1>5, <2>1, BodyTaken
<1>7. byte = s[1] /\ m = <<byte[1], byte[2]>> /\ m \in Messages
  <2>1. byte = s[1]
    BY <1>3, NextIsFirst
  <2>2. m = <<byte[1], byte[2]>>
    BY DEF MessageOf
  <2>3. m \in Messages
    <3> HIDE DEF s, byte
    <3> QED  BY <1>6, <2>1, ByteHas
  <2> QED  BY <2>1, <2>2, <2>3
<1>8. e \in Prints /\ e.message = m
  <2>1. e = [during |-> cmd, message |-> m, copies |-> slots]
    BY <1>7
  <2>2. cmd \in Nat /\ slots \in Nat
    BY <1>1 DEF RcTypes
  <2> HIDE DEF m, e
  <2> QED  BY <1>7, <2>1, <2>2 DEF Prints
<1> HIDE DEF e, m
<1>9. /\ printed \in Seq(Prints) /\ printed' \in Seq(Prints)
      /\ [k \in DOMAIN printed' |-> printed'[k].message] =
            Append([k \in DOMAIN printed |-> printed[k].message], m)
  BY <1>1, <1>2, <1>8, OnePrintMore DEF RcTypes
<1>10. TypeInv'
  BY <1>1, <1>2, <1>5, <1>9, ReadingTypes DEF Places, LoopTypes, RcTypes
<1>11. Framed(Stream') /\ StartsRight(Stream', reader'.mPendingRead)
  BY <1>5, <1>6
<1>12. EndsWhole(Stream, reader.mPendingRead) => EndsWhole(Stream', reader'.mPendingRead)
  BY <1>5, <1>6
<1>13. /\ Len(conn'.wire) <= Len(conn.wire)
       /\ reader'.eof => conn.link = "closed" /\ conn'.wire = <<>>
  BY <1>1, <1>2, <1>5, LenProperties DEF RcInv, Conns
<1>14. IInv'
  BY <1>2, <1>5, <1>10, <1>11, <1>12, <1>13, ReadingKeeps
<1>15. InFlight # <<>> /\ Head(InFlight) = m /\ Tail(InFlight) = InFlight'
  <2>1. InFlight' = MessagesIn(r) /\ InFlight = MessagesIn(s)
    BY DEF InFlight, MessagesIn, EndsMessage
  <2> DEFINE q == InFlight'
  <2>2. q \in Seq(Messages) /\ InFlight = <<m>> \o q
    BY <1>6, <1>7, <2>1 DEF m
  <2> HIDE DEF q
  <2>3. <<m>> \o q # <<>> /\ Head(<<m>> \o q) = m /\ Tail(<<m>> \o q) = q
    BY <1>7, <2>2, HeadAndRest
  <2> QED  BY <2>2, <2>3 DEF q
<1>16. Queue!Take
  BY <1>2, <1>9, <1>15 DEF Queue!Take, Reading
<1>17. Taking
  BY <1>2, <1>8, <1>15 DEF Taking, e
<1> QED  BY <1>14, <1>16, <1>17 DEF Maps, Queue!Next

LEMMA parseEndKeeps ==
    ASSUME IInv, parseEnd
    PROVE  IInv' /\ Maps
<1> DEFINE n == reader.mPendingRead
           s == Stream
<1>1. /\ TypeInv /\ BooksInv /\ RcInv /\ FrameInv /\ reader \in Readers /\ conn \in Conns
      /\ LoopTypes /\ RcTypes
  BY DEF IInv, TypeInv, RcTypes, ServerTypes
<1>2. /\ pc = "parse" /\ pc' = "end" /\ mConnection /\ UNCHANGED <<printed, reader, conn>>
      /\ Reading /\ ~HeaderThere(reader) /\ ~BodyThere(reader)
  BY <1>1 DEF parseEnd, Reading, serverVars, RcInv
<1>3. /\ mConnection' \in BOOLEAN /\ pipe' \subseteq {"wake", "q"}
      /\ ~mConnection' => reader.eof
  BY <1>1, <1>2 DEF parseEnd, RcTypes, LoopTypes
<1>4. Stream' = Stream /\ InFlight' = InFlight
  <2>1. Stream' = Stream
    BY <1>2 DEF Stream, Unread
  <2> QED  BY <2>1, SameStream
<1>5. TypeInv'
  BY <1>1, <1>2, <1>3, <1>4, ReadingTypes DEF Places, LoopTypes, RcTypes
<1>6. reader.eof => conn.link = "closed" /\ conn.wire = <<>> /\ InFlight = <<>>
  <2> SUFFICES ASSUME reader.eof PROVE conn.link = "closed" /\ conn.wire = <<>> /\ InFlight = <<>>
    OBVIOUS
  <2>1. conn.link = "closed" /\ conn.wire = <<>>
    BY <1>1 DEF RcInv
  <2>2. Len(Left(conn)) = 0
    <3>1. Left(conn) = <<>> \o <<>>
      BY <2>1 DEF Left
    <3>2. <<>> \in Seq(ByteSet) /\ Len(<<>>) = 0
      BY EmptySeq
    <3> QED  BY <3>1, <3>2, ConcatEmptySeq
  <2>3. /\ s \in Seq(ByteSet) /\ Framed(s) /\ StartsRight(s, n) /\ n \in Nat
        /\ Len(s) = bytesAvailable(reader) /\ InFlight = MessagesIn(s)
    BY <2>2, StreamParts
  <2> HIDE DEF s
  <2>4. /\ n = 0 => Len(s) < HeaderSize
        /\ n > 0 => Len(s) < n
    <3>1. Len(s) \in Nat /\ HeaderSize \in Nat
      BY <2>3, LenProperties, SizesAssumption
    <3> QED  BY <1>2, <2>3, <3>1 DEF HeaderThere, BodyThere
  <2> HIDE DEF n
  <2>5. MessagesIn(s) = <<>>
    BY <2>3, <2>4, TooShort
  <2> QED  BY <2>1, <2>3, <2>5
<1>7. Framed(Stream') /\ StartsRight(Stream', reader'.mPendingRead)
  BY <1>1, <1>2, <1>4 DEF FrameInv
<1>8. EndsWhole(Stream, reader.mPendingRead) => EndsWhole(Stream', reader'.mPendingRead)
  BY <1>2, <1>4
<1>9. /\ Len(conn'.wire) <= Len(conn.wire) /\ reader'.mReadBufferPos <= Len(reader'.mReadBuffer)
      /\ reader'.eof => conn.link = "closed" /\ conn'.wire = <<>>
      /\ ~mConnection' => conn.link = "closed" /\ InFlight' = <<>>
  BY <1>1, <1>2, <1>3, <1>4, <1>6, LenProperties DEF BooksInv, Conns
<1>10. IInv'
  BY <1>2, <1>5, <1>7, <1>8, <1>9, ReadingKeeps
<1>11. UNCHANGED Queue!vars
  BY <1>2, <1>4 DEF Queue!vars, Reading
<1> QED  BY <1>10, <1>11 DEF Maps

---------------------------------------------------------------------------
(* The command line, and the whole specification.                          *)

\* One option adds at most one command.
LEMMA OptionAdds ==
    ASSUME NEW p \in Setups, NEW o \in STRING
    PROVE  Option(p, o) \in Setups /\ Len(Option(p, o).mCommands) <= Len(p.mCommands) + 1
<1>1. p.mCommands \in Seq(OptionSet) /\ Len(p.mCommands) \in Nat
  BY LenProperties DEF Setups
<1>2. CASE o = "timeout" \/ o = "autostart-rdm"
  <2>1. Option(p, o) \in {[p EXCEPT !.mTimeout = TRUE], [p EXCEPT !.autostart = TRUE]}
    BY <1>2 DEF Option
  <2>2. Option(p, o) \in Setups /\ Option(p, o).mCommands = p.mCommands
    BY <2>1 DEF Setups
  <2> QED  BY <1>1, <2>2
<1>3. CASE o # "timeout" /\ o # "autostart-rdm"
  <2> DEFINE t == (QueryType @@ OtherType)[o]
             c == [option |-> o, type |-> t, silent |-> FALSE]
             cs == Append(p.mCommands, c)
  <2>1. Option(p, o) = [p EXCEPT !.mCommands = cs]
    BY <1>3 DEF Option
  <2>2. c \in OptionSet
    <3>1. t \in Types
      BY DEF Types
    <3> HIDE DEF t
    <3> QED  BY <3>1 DEF OptionSet
  <2> HIDE DEF c
  <2>3. cs \in Seq(OptionSet) /\ Len(cs) = Len(p.mCommands) + 1
    BY <1>1, <2>2, OneMore
  <2> HIDE DEF cs
  <2>4. Option(p, o) \in Setups /\ Option(p, o).mCommands = cs
    BY <2>1, <2>3 DEF Setups
  <2> QED  BY <1>1, <2>3, <2>4
<1> QED  BY <1>2, <1>3

\* The commands of a line are numbered by its options.
LEMMA ParsedIs ==
    ASSUME NEW line \in CommandLines
    PROVE  Parsed(line) \in Setups /\ DOMAIN Parsed(line).mCommands \subseteq DOMAIN line
<1> DEFINE n == Len(line)
           Value(k, before) == Option(before, line[k])
           step == [p \in (1..n) \X Setups |-> Value(p[1], p[2])]
           Body(f) == [k \in 0..n |-> IF k = 0 THEN NoOptions ELSE Option(f[k - 1], line[k])]
           parsed == CHOOSE f : f = Body(f)
<1>1. n \in Nat /\ \A k \in 1..n : line[k] \in STRING
  BY LinesAssumption, LenProperties, ElementOfSeq
<1>2. NoOptions \in Setups /\ Len(NoOptions.mCommands) = 0
  <2> DEFINE none == <<>>
  <2>1. none \in Seq(OptionSet) /\ Len(none) = 0
    BY EmptySeq
  <2>2. NoOptions = [mCommands |-> none, mTimeout |-> FALSE, autostart |-> FALSE]
    BY DEF NoOptions
  <2> HIDE DEF none
  <2> QED  BY <2>1, <2>2 DEF Setups
<1>3. \A k \in 1..n, before \in Setups :
         Value(k, before) \in Setups /\ Len(Value(k, before).mCommands) <= Len(before.mCommands) + 1
  BY <1>1, OptionAdds
<1> HIDE DEF n
<1>4. step \in [(1..n) \X Setups -> Setups] /\ \A k \in 1..n, before \in Setups : step[<<k, before>>] = Value(k, before)
  BY <1>3
<1>5. Stepped(n, Setups, NoOptions, step)
  <2> HIDE DEF step
  <2> QED  BY <1>1, <1>2, <1>4, StepsExist
<1>6. PICK f \in [0..n -> Setups] : Steps(f, n, NoOptions, step)
  BY <1>5 DEF Stepped
<1> HIDE DEF step
<1>7. f = Body(f)
  <2>1. f = [k \in 0..n |-> IF k = 0 THEN NoOptions ELSE step[<<k, f[k - 1]>>]]
    BY <1>6 DEF Steps
  <2>2. \A k \in 0..n : k # 0 => k \in 1..n /\ k - 1 \in 0..n
    BY <1>1
  <2>3. \A k \in 0..n : k # 0 => step[<<k, f[k - 1]>>] = Option(f[k - 1], line[k])
    BY <1>4, <1>6, <2>2
  <2> QED  BY <2>1, <2>3
<1>8. parsed = Body(parsed)
  <2> HIDE DEF Body
  <2> QED  BY <1>7
<1> HIDE DEF parsed
<1>9. parsed[n] \in Setups /\ Len(parsed[n].mCommands) <= n
  <2> DEFINE T == {k \in 0..n : parsed[k] \in Setups /\ Len(parsed[k].mCommands) <= k}
  <2>1. 0 \in T
    <3>1. 0 \in 0..n
      BY <1>1
    <3>2. parsed[0] = NoOptions
      BY <1>8, <3>1
    <3> QED  BY <1>2, <3>1, <3>2
  <2>2. ASSUME NEW k \in 1..n, k - 1 \in T PROVE k \in T
    <3>1. k \in 0..n /\ k # 0 /\ k \in Nat
      BY <1>1
    <3>2. parsed[k] = Value(k, parsed[k - 1])
      BY <1>8, <3>1
    <3>3. parsed[k - 1] \in Setups /\ Len(parsed[k - 1].mCommands) <= k - 1
      BY <2>2
    <3> DEFINE p == parsed[k - 1]  q == parsed[k]
    <3>4. q \in Setups /\ Len(q.mCommands) <= Len(p.mCommands) + 1
      BY <1>3, <3>2, <3>3
    <3>5. Len(p.mCommands) \in Nat /\ Len(q.mCommands) \in Nat
      BY <3>3, <3>4, LenProperties DEF Setups
    <3>6. Len(q.mCommands) <= k
      BY <3>1, <3>3, <3>4, <3>5
    <3> QED  BY <3>1, <3>4, <3>6
  <2>3. \A k \in 0..n : k \in T
    <3> HIDE DEF T
    <3> QED  BY <1>1, <2>1, <2>2, UpTo
  <2>4. n \in 0..n
    BY <1>1
  <2> QED  BY <2>3, <2>4
<1> DEFINE p == parsed[n]
           cs == p.mCommands
           Quiet(i) == /\ Cardinality({j \in DOMAIN cs : cs[j].type = "Project"}) < Len(cs)
                       /\ cs[i].option = "project-arg"
           ds == [i \in DOMAIN cs |-> [cs[i] EXCEPT !.silent = Quiet(i)]]
<1>10. Parsed(line) = [p EXCEPT !.mCommands = ds]
  BY DEF Parsed, parsed, n
<1>11. cs \in Seq(OptionSet) /\ Len(cs) <= n
  BY <1>9 DEF Setups
<1>12. \A i : Quiet(i) \in BOOLEAN
  OBVIOUS
<1> HIDE DEF p, Quiet
<1>13. ds \in Seq(OptionSet) /\ Len(ds) = Len(cs)
  <2> HIDE DEF cs
  <2>1. DOMAIN cs = 1..Len(cs) /\ Len(cs) \in Nat /\ \A i \in 1..Len(cs) : cs[i] \in OptionSet
    BY <1>11, LenProperties, ElementOfSeq
  <2>2. \A i \in 1..Len(cs) : [cs[i] EXCEPT !.silent = Quiet(i)] \in OptionSet
    BY <1>12, <2>1 DEF OptionSet
  <2> QED  BY <2>1, <2>2
<1>14. p \in Setups
  BY <1>9 DEF p
<1> HIDE DEF ds
<1>15. Parsed(line) \in Setups /\ Parsed(line).mCommands = ds
  BY <1>10, <1>13, <1>14 DEF Setups
<1>16. DOMAIN ds = 1..Len(cs) /\ DOMAIN line = 1..n /\ Len(cs) \in Nat
  BY <1>11, <1>13, LinesAssumption, LenProperties DEF n
<1> QED  BY <1>1, <1>11, <1>15, <1>16

\* A run begins without a connection, and with nothing on its way.
LEMMA InitEstablishes ==
    ASSUME Init
    PROVE  IInv /\ Queue!Init /\ InFlight = <<>>
<1>1. PICK line \in CommandLines : setup = Parsed(line)
  BY DEF Init
<1>2. SetupTypes
  BY <1>1, ParsedIs DEF SetupTypes, Commands, CommandNumbers
<1> DEFINE none == <<>>
<1>3. none \in Seq(ByteSet) /\ none \in Seq(Queries) /\ none \in Seq(Prints) /\ Len(none) = 0 /\ DOMAIN none = {}
  BY EmptySeq
<1>4. /\ conn.no = 0 /\ conn.link = "none" /\ conn.wire = none /\ conn.unsent = none /\ conn.mPendingWrite = 0
      /\ reader.mReadBuffer = none /\ reader.mReadBufferPos = 0 /\ reader.mPendingRead = 0
      /\ reader.eof = FALSE /\ printed = none /\ toServer = none
  BY DEF Init, NewConnection, FreshReader
<1>5. conn \in Conns /\ reader \in Readers
  <2>1. /\ conn = [[no |-> 0, link |-> "backlog", unsent |-> none, wire |-> none, mPendingWrite |-> 0,
                    mDone |-> FALSE, mSilent |-> FALSE, lookups |-> {}, loggers |-> {}, stream |-> FALSE]
                   EXCEPT !.link = "none"]
        /\ reader = [mReadBuffer |-> none, mReadBufferPos |-> 0, mPendingRead |-> 0, eof |-> FALSE]
    BY DEF Init, NewConnection, FreshReader
  <2> HIDE DEF none
  <2>2. conn \in Conns
    BY <1>3, <2>1 DEF Conns, Links
  <2>3. reader \in Readers
    BY <1>3, <2>1 DEF Readers
  <2> QED  BY <2>2, <2>3
<1>6. Stream = none
  <2>1. Stream = Unread(reader) \o none \o none
    BY <1>4 DEF Stream
  <2>2. Unread(reader) = none
    BY <1>3, <1>4, UnreadAll
  <2> HIDE DEF none
  <2>3. none \o none = none
    BY <1>3, ConcatEmptySeq DEF none
  <2> QED  BY <2>1, <2>2, <2>3
<1>7. InFlight = none
  <2>1. \A k \in 1..Len(none) : FALSE
    BY <1>3
  <2> HIDE DEF none
  <2>2. MessagesIn(none) = <<>>
    BY <1>3, <2>1, NoMessages
  <2> QED  BY <1>6, <2>2 DEF InFlight, none
<1>8. TypeInv
  <2>1. LoopTypes /\ RcTypes
    <3>1. /\ stdin = [watched |-> FALSE, unread |-> 0, held |-> 0, typed |-> 0]
          /\ pipe = {} /\ ready = {} /\ mQuit = FALSE /\ timer = "off" /\ cutShort = FALSE
          /\ pc = "start" /\ cmd = 1 /\ mConnection = FALSE /\ slots = 0
      BY DEF Init
    <3>2. LoopTypes
      <4>1. stdin \in [watched : BOOLEAN, unread : Int, held : Int, typed : Int]
        <5> DEFINE zero == 0
        <5>1. stdin = [watched |-> FALSE, unread |-> zero, held |-> zero, typed |-> zero] /\ zero \in Int
          BY <3>1
        <5> HIDE DEF zero
        <5> QED  BY <5>1
      <4>2. mQuit \in BOOLEAN /\ cutShort \in BOOLEAN
        BY <3>1
      <4>3. /\ pipe \subseteq {"wake", "q"} /\ ready \subseteq {"pipe", "socket", "stdin"}
            /\ timer \in {"off", "set", "due"}
        BY <3>1
      <4> QED  BY <4>1, <4>2, <4>3 DEF LoopTypes
    <3> HIDE DEF none
    <3>3. RcTypes
      BY <1>3, <1>4, <1>5, <3>1 DEF RcTypes, Places
    <3> QED  BY <3>2, <3>3
  <2>2. ServerTypes
    <3>1. written \in [Commands -> 0..MaxMessages] /\ processes = {} /\ serverUp \in BOOLEAN
      BY SizesAssumption DEF Init
    <3> QED  BY <1>3, <1>4, <1>5, <3>1 DEF ServerTypes
  <2> QED  BY <1>2, <2>1, <2>2 DEF TypeInv
<1>9. BooksInv
  BY <1>3, <1>4, SizesAssumption DEF BooksInv, Books
<1>10. RcInv
  BY <1>4, <1>7 DEF Init, RcInv, Running
<1>11. FrameInv
  BY <1>4, <1>6, NothingIsWhole DEF FrameInv, Whole
<1>12. Queue!Init
  BY <1>3, <1>4, <1>7 DEF Init, Queue!Init
<1> QED  BY <1>7, <1>8, <1>9, <1>10, <1>11, <1>12 DEF IInv

LEMMA NextKeeps ==
    ASSUME IInv, [Next]_vars
    PROVE  IInv' /\ Maps
<1>1. CASE rcStep
  <2>1. CASE Start
    BY <2>1, StartKeeps
  <2>2. CASE sendMessage
    BY <2>2, sendMessageKeeps
  <2>3. CASE connectAndSend
    BY <2>3, connectAndSendKeeps
  <2>4. CASE Finished \/ Select \/ handlePipe \/ processStdinFails \/ processStdinDangling \/ RoundEnd
    BY <2>4, LoopKeeps
  <2>5. CASE processStdin
    BY <2>5, processStdinKeeps
  <2>6. CASE readMore
    BY <2>6, readMoreKeeps
  <2>7. CASE readEnd
    BY <2>7, readEndKeeps
  <2>8. CASE parseHeader
    BY <2>8, parseHeaderKeeps
  <2>9. CASE parseMessage
    BY <2>9, parseMessageKeeps
  <2>10. CASE parseEnd
    BY <2>10, parseEndKeeps
  <2> QED  BY <1>1, <2>1, <2>2, <2>3, <2>4, <2>5, <2>6, <2>7, <2>8, <2>9, <2>10 DEF rcStep
<1>2. CASE Type \/ Tick
  BY <1>2, LoopKeeps
<1>3. CASE Accept
  BY <1>3, AcceptKeeps
<1>4. CASE Handle
  BY <1>4, HandleKeeps
<1>5. CASE WriteMore
  BY <1>5, WriteMoreKeeps
<1>6. CASE Jobs
  <2>1. CASE JobEnds
    <3>1. PICK j \in conn.lookups : JobEnd(j)
      BY <2>1 DEF JobEnds
    <3> QED  BY <3>1, JobEndKeeps
  <2>2. CASE \E i \in Commands : JobOutput(i) \/ LogOutput(i)
    BY <2>2, JobsKeep
  <2> QED  BY <1>6, <2>1, <2>2 DEF Jobs
<1>7. CASE ProcessEnd
  BY <1>7, ProcessEndKeeps
<1>8. CASE ProcessEndDangling
  BY <1>8, ProcessEndDanglingKeeps
<1>9. CASE UNCHANGED vars
  <2>1. UNCHANGED <<setup, reader, conn, printed, serverUp, mConnection, pc, cmd>> /\ UNCHANGED vars
    BY <1>9 DEF vars, rcVars, serverVars
  <2>2. TypeInv'
    <3>1. TypeInv /\ Commands' = Commands /\ Conns' = Conns /\ Queries' = Queries /\ SetupTypes' = SetupTypes
      BY <2>1, SetupStays DEF IInv
    <3> QED  BY <1>9, <3>1 DEF TypeInv, LoopTypes, RcTypes, ServerTypes, vars, rcVars, serverVars
  <2>3. pc' \in Running => cmd' \in Commands'
    BY <2>1, SetupStays DEF IInv, RcInv
  <2> QED  BY <2>1, <2>2, <2>3, QuietKeeps, SetupStays DEF IInv, RcInv
<1> QED  BY <1>1, <1>2, <1>3, <1>4, <1>5, <1>6, <1>7, <1>8, <1>9 DEF Next

LEMMA InvariantHolds == Spec => []IInv
<1>1. Init => IInv
  BY InitEstablishes
<1>2. IInv /\ [Next]_vars => IInv'
  BY NextKeeps
<1> QED  BY <1>1, <1>2, PTL DEF Spec

---------------------------------------------------------------------------
(* The answers to a command, as rc prints them.                            *)

Line(i, m) == [during |-> i, message |-> m, copies |-> 1]
Tagged(i, ms) == [k \in 1..Len(ms) |-> Line(i, ms[k])]
AnswerStep(i, k, before) == IF BodySize[k] > 0 THEN Append(before, Line(i, <<i, k>>)) ELSE before

LEMMA LineIsPrint ==
    ASSUME NEW i \in CommandNumbers, NEW m \in Messages
    PROVE  Line(i, m) \in Prints
<1>1. i \in Nat
  <2>1. PICK line \in CommandLines : i \in DOMAIN line
    BY DEF CommandNumbers
  <2>2. line \in Seq(STRING)
    BY LinesAssumption
  <2> QED  BY <2>1, <2>2, LenProperties
<1> QED  BY <1>1 DEF Line, Prints

\* f goes through the first n messages for command i.
Answers(f, i, n) ==
    /\ f \in [0..n -> Seq(Prints)] /\ f[0] = <<>>
    /\ \A k \in 1..n : f[k] = AnswerStep(i, k, f[k - 1])

LEMMA AnswerInSteps ==
    ASSUME NEW i \in CommandNumbers, NEW n \in 0..MaxMessages
    PROVE  \E f : Answers(f, i, n) /\ Answer(i, n) = f[n]
<1> DEFINE Acc == Seq(Prints)
           step == [p \in (1..n) \X Acc |-> AnswerStep(i, p[1], p[2])]
           Body(f) == [k \in 0..n |-> IF k = 0 THEN <<>>
                                      ELSE IF BodySize[k] > 0
                                           THEN Append(f[k - 1], [during |-> i, message |-> <<i, k>>, copies |-> 1])
                                      ELSE f[k - 1]]
           seen == CHOOSE f : f = Body(f)
<1>1. n \in Nat /\ <<>> \in Acc /\ \A k \in 1..n : Line(i, <<i, k>>) \in Prints
  <2>1. \A k \in 1..n : <<i, k>> \in Messages
    BY SizesAssumption DEF Messages, CommandNumbers
  <2>2. n \in Nat
    BY SizesAssumption
  <2> QED  BY <2>1, <2>2, EmptySeq, LineIsPrint
<1>2. \A k \in 1..n, before \in Acc : AnswerStep(i, k, before) \in Acc
  BY <1>1, AppendProperties DEF AnswerStep
<1>3. step \in [(1..n) \X Acc -> Acc]
  BY <1>2
<1>4. \A k \in 1..n, before \in Acc : step[<<k, before>>] = AnswerStep(i, k, before)
  OBVIOUS
<1>5. Stepped(n, Acc, <<>>, step)
  <2> HIDE DEF Acc, step
  <2> QED  BY <1>1, <1>3, StepsExist
<1>6. PICK f \in [0..n -> Acc] : Steps(f, n, <<>>, step)
  BY <1>5 DEF Stepped
<1>7. f = [k \in 0..n |-> IF k = 0 THEN <<>> ELSE step[<<k, f[k - 1]>>]]
  BY <1>6 DEF Steps
<1>8. \A k \in 1..n : step[<<k, f[k - 1]>>] = AnswerStep(i, k, f[k - 1])
  <2> TAKE k \in 1..n
  <2>1. k - 1 \in 0..n
    BY <1>1
  <2>2. f[k - 1] \in Acc
    BY <1>6, <2>1
  <2> HIDE DEF step, Acc
  <2> QED  BY <1>4, <2>2
<1>9. f = Body(f)
  <2>1. \A k \in 0..n : k # 0 => k \in 1..n
    BY <1>1
  <2>2. \A k \in 0..n : k # 0 => step[<<k, f[k - 1]>>] =
            IF BodySize[k] > 0 THEN Append(f[k - 1], [during |-> i, message |-> <<i, k>>, copies |-> 1])
                               ELSE f[k - 1]
    BY <1>8, <2>1 DEF AnswerStep, Line
  <2> HIDE DEF step, Acc
  <2> QED  BY <1>7, <2>2
<1>10. seen = Body(seen)
  <2> HIDE DEF Body
  <2> QED  BY <1>9
<1>11. Answer(i, n) = seen[n]
  BY DEF Answer
<1> HIDE DEF seen
<1>12. seen[0] = <<>>
  BY <1>1, <1>10
<1>13. \A k \in 1..n : seen[k] = AnswerStep(i, k, seen[k - 1])
  <2> TAKE k \in 1..n
  <2>1. k \in 0..n /\ k # 0
    BY <1>1
  <2>2. seen[k] = Body(seen)[k]
    BY <1>10
  <2> QED  BY <2>1, <2>2 DEF AnswerStep, Line
<1>14. \A k \in 0..n : seen[k] \in Acc
  <2> DEFINE T == {k \in 0..n : seen[k] \in Acc}
  <2>1. 0 \in T
    <3> HIDE DEF Acc
    <3> QED  BY <1>1, <1>12
  <2>2. \A k \in 1..n : k - 1 \in T => k \in T
    <3> HIDE DEF Acc
    <3> QED  BY <1>2, <1>13
  <2>3. \A k \in 0..n : k \in T
    <3> HIDE DEF T
    <3> QED  BY <1>1, <2>1, <2>2, UpTo
  <2> QED  BY <2>3
<1>15. seen = [k \in 0..n |-> seen[k]]
  BY <1>10
<1>16. seen \in [0..n -> Acc]
  <2> HIDE DEF Acc
  <2> QED  BY <1>14, <1>15
<1>17. Answers(seen, i, n)
  BY <1>12, <1>13, <1>16 DEF Answers
<1> QED  BY <1>11, <1>17

\* One message more.
LEMMA AnswerGrows ==
    ASSUME NEW i \in CommandNumbers, NEW n \in 1..MaxMessages
    PROVE  Answer(i, n) = AnswerStep(i, n, Answer(i, n - 1))
<1>1. n - 1 \in 0..MaxMessages /\ n \in 0..MaxMessages /\ n \in 1..n /\ n - 1 \in Nat
  BY SizesAssumption
<1>2. PICK f : Answers(f, i, n) /\ Answer(i, n) = f[n]
  BY <1>1, AnswerInSteps
<1>3. PICK g : Answers(g, i, n - 1) /\ Answer(i, n - 1) = g[n - 1]
  BY <1>1, AnswerInSteps
<1> DEFINE T == {k \in 0..(n - 1) : f[k] = g[k]}
<1>4. 0 \in T
  BY <1>1, <1>2, <1>3 DEF Answers
<1>5. \A k \in 1..(n - 1) : k - 1 \in T => k \in T
  <2> TAKE k \in 1..(n - 1)
  <2>1. k \in 1..n /\ k \in 0..(n - 1)
    BY <1>1
  <2>2. f[k] = AnswerStep(i, k, f[k - 1]) /\ g[k] = AnswerStep(i, k, g[k - 1])
    BY <1>2, <1>3, <2>1 DEF Answers
  <2> QED  BY <2>1, <2>2
<1>6. \A k \in 0..(n - 1) : k \in T
  <2> HIDE DEF T
  <2> QED  BY <1>1, <1>4, <1>5, UpTo
<1>7. f[n - 1] = g[n - 1]
  BY <1>1, <1>6
<1>8. f[n] = AnswerStep(i, n, f[n - 1])
  BY <1>1, <1>2 DEF Answers
<1> QED  BY <1>2, <1>3, <1>7, <1>8

LEMMA AnswerIsPrints ==
    ASSUME NEW i \in CommandNumbers, NEW n \in 0..MaxMessages
    PROVE  Answer(i, n) \in Seq(Prints) /\ Answer(i, 0) = <<>>
<1>1. PICK f : Answers(f, i, n) /\ Answer(i, n) = f[n]
  BY AnswerInSteps
<1>2. 0 \in 0..MaxMessages /\ n \in 0..n
  BY SizesAssumption
<1>3. PICK g : Answers(g, i, 0) /\ Answer(i, 0) = g[0]
  BY <1>2, AnswerInSteps
<1> QED  BY <1>1, <1>2, <1>3 DEF Answers

\* What comes first of an answer is the answer of the first messages.
LEMMA BeginningOfAnswer ==
    ASSUME NEW i \in CommandNumbers, NEW n \in 0..MaxMessages,
           NEW p \in Seq(Prints), NEW q \in Seq(Prints), p \o q = Answer(i, n)
    PROVE  \E k \in 0..n : p = Answer(i, k)
<1> DEFINE Begins(a, m) == \E k \in 0..m : a = Answer(i, k)
           T == {m \in 0..n : \A a, b \in Seq(Prints) : a \o b = Answer(i, m) => Begins(a, m)}
<1>1. n \in Nat
  BY SizesAssumption
<1>2. 0 \in T
  <2>1. Answer(i, 0) = <<>> /\ 0 \in 0..n /\ 0 \in 0..0
    BY <1>1, AnswerIsPrints
  <2>2. ASSUME NEW a \in Seq(Prints), NEW b \in Seq(Prints), a \o b = Answer(i, 0)
        PROVE  Begins(a, 0)
    <3>1. a = Answer(i, 0)
      BY <2>1, <2>2, ConcatEqualIffEmpty
    <3> QED  BY <2>1, <3>1
  <2> HIDE DEF Begins
  <2> QED  BY <2>1, <2>2
<1>3. ASSUME NEW m \in 1..n, m - 1 \in T
      PROVE  m \in T
  <2>1. /\ m \in 1..MaxMessages /\ m - 1 \in 0..MaxMessages /\ m \in 0..MaxMessages /\ m \in 0..n
        /\ \A k \in 0..(m - 1) : k \in 0..m
    BY <1>1, SizesAssumption
  <2>2. ASSUME NEW a \in Seq(Prints), NEW b \in Seq(Prints), a \o b = Answer(i, m)
        PROVE  Begins(a, m)
    <3>1. Answer(i, m) = AnswerStep(i, m, Answer(i, m - 1)) /\ Answer(i, m - 1) \in Seq(Prints)
      BY <2>1, AnswerGrows, AnswerIsPrints
    <3>2. CASE b = <<>>
      BY <2>2, <3>2, ConcatEmptySeq
    <3>3. CASE b # <<>> /\ Answer(i, m) = Answer(i, m - 1)
      <4>1. Begins(a, m - 1)
        BY <1>3, <2>2, <3>3
      <4> QED  BY <2>1, <4>1
    <3>4. CASE b # <<>> /\ Answer(i, m) # Answer(i, m - 1)
      <4> DEFINE e == Line(i, <<i, m>>)
      <4>1. Answer(i, m) = Append(Answer(i, m - 1), e)
        BY <3>1, <3>4 DEF AnswerStep
      <4>2. e \in Prints
        <5>1. <<i, m>> \in Messages
          BY <2>1 DEF Messages, CommandNumbers
        <5> QED  BY <5>1, LineIsPrint
      <4> HIDE DEF e
      <4>3. PICK c \in Seq(Prints), d \in Prints : b = Append(c, d)
        BY <3>4, SequenceEmptyOrAppend
      <4>4. a \o b = Append(a \o c, d) /\ a \o c \in Seq(Prints)
        <5>1. <<d>> \in Seq(Prints) /\ a \o c \in Seq(Prints)
          BY ConcatProperties
        <5>2. b = c \o <<d>> /\ Append(a \o c, d) = (a \o c) \o <<d>>
          BY <4>3, <5>1, AppendIsConcat
        <5>3. (a \o c) \o <<d>> = a \o (c \o <<d>>)
          BY <5>1, ConcatAssociative, SMTT(30)
        <5> QED  BY <5>1, <5>2, <5>3
      <4>5. a \o c = Answer(i, m - 1)
        <5> DEFINE s == a \o c
                   t == Answer(i, m - 1)
        <5>1. s \in Seq(Prints) /\ t \in Seq(Prints) /\ Append(s, d) = Append(t, e)
          BY <2>2, <3>1, <4>1, <4>4
        <5> HIDE DEF s, t
        <5>2. s = t
          BY <4>2, <5>1, AppendInjective
        <5> QED  BY <5>2 DEF s, t
      <4>6. Begins(a, m - 1)
        BY <1>3, <4>5
      <4> QED  BY <2>1, <4>6
    <3> QED  BY <3>2, <3>3, <3>4
  <2> QED  BY <2>1, <2>2
<1>4. \A m \in 0..n : m \in T
  <2> HIDE DEF T
  <2> QED  BY <1>1, <1>2, <1>3, UpTo
<1>5. n \in T
  <2> HIDE DEF T
  <2> QED  BY <1>1, <1>4
<1> QED  BY <1>5

\* The answers to all commands before one of them.
Numbers(n) == n \in Nat /\ 1..n \subseteq CommandNumbers
Befores(f, w, n) ==
    /\ f \in [0..n -> Seq(Prints)] /\ f[0] = <<>>
    /\ \A k \in 1..n : f[k] = f[k - 1] \o Answer(k, w[k])

LEMMA BeforeInSteps ==
    ASSUME NEW n, Numbers(n), NEW w, \A k \in 1..n : w[k] \in 0..MaxMessages
    PROVE  \E f : Befores(f, w, n) /\ AnswersBefore(n + 1, w) = f[n]
<1> DEFINE Acc == Seq(Prints)
           Value(k, before) == before \o Answer(k, w[k])
           step == [p \in (1..n) \X Acc |-> Value(p[1], p[2])]
           Body(f) == [k \in 0..n |-> IF k = 0 THEN <<>> ELSE f[k - 1] \o Answer(k, w[k])]
           all == CHOOSE f : f = Body(f)
<1>1. n \in Nat /\ <<>> \in Acc /\ \A k \in 1..n : Answer(k, w[k]) \in Acc
  BY EmptySeq, AnswerIsPrints DEF Numbers
<1>2. \A k \in 1..n, before \in Acc : Value(k, before) \in Acc
  BY <1>1, ConcatProperties
<1>3. step \in [(1..n) \X Acc -> Acc]
  BY <1>2
<1>4. \A k \in 1..n, before \in Acc : step[<<k, before>>] = Value(k, before)
  OBVIOUS
<1>5. Stepped(n, Acc, <<>>, step)
  <2> HIDE DEF Acc, step
  <2> QED  BY <1>1, <1>3, StepsExist
<1>6. PICK f \in [0..n -> Acc] : Steps(f, n, <<>>, step)
  BY <1>5 DEF Stepped
<1>7. f = [k \in 0..n |-> IF k = 0 THEN <<>> ELSE step[<<k, f[k - 1]>>]]
  BY <1>6 DEF Steps
<1>8. \A k \in 1..n : step[<<k, f[k - 1]>>] = Value(k, f[k - 1])
  <2> TAKE k \in 1..n
  <2>1. k - 1 \in 0..n
    BY <1>1
  <2>2. f[k - 1] \in Acc
    BY <1>6, <2>1
  <2> HIDE DEF step, Acc, Value
  <2> QED  BY <1>4, <2>2
<1>9. f = Body(f)
  <2>1. \A k \in 0..n : k # 0 => k \in 1..n
    BY <1>1
  <2>2. \A k \in 0..n : k # 0 => step[<<k, f[k - 1]>>] = f[k - 1] \o Answer(k, w[k])
    BY <1>8, <2>1
  <2> HIDE DEF step, Acc
  <2> QED  BY <1>7, <2>2
<1>10. all = Body(all)
  <2> HIDE DEF Body
  <2> QED  BY <1>9
<1>11. AnswersBefore(n + 1, w) = all[n]
  <2>1. (n + 1) - 1 = n
    BY <1>1
  <2> QED  BY <2>1 DEF AnswersBefore
<1> HIDE DEF all
<1>12. all[0] = <<>>
  BY <1>1, <1>10
<1>13. \A k \in 1..n : all[k] = all[k - 1] \o Answer(k, w[k])
  <2> TAKE k \in 1..n
  <2>1. k \in 0..n /\ k # 0
    BY <1>1
  <2>2. all[k] = Body(all)[k]
    BY <1>10
  <2> QED  BY <2>1, <2>2
<1>14. \A k \in 0..n : all[k] \in Acc
  <2> DEFINE T == {k \in 0..n : all[k] \in Acc}
  <2>1. 0 \in T
    <3> HIDE DEF Acc
    <3> QED  BY <1>1, <1>12
  <2>2. \A k \in 1..n : k - 1 \in T => k \in T
    <3> TAKE k \in 1..n
    <3>1. k - 1 \in T => Value(k, all[k - 1]) \in Acc
      <4> HIDE DEF Acc, Value
      <4> QED  BY <1>2
    <3>2. k \in 0..n
      BY <1>1
    <3>3. all[k] = Value(k, all[k - 1])
      BY <1>13
    <3> HIDE DEF Acc, Value
    <3> QED  BY <3>1, <3>2, <3>3
  <2>3. \A k \in 0..n : k \in T
    <3> HIDE DEF T
    <3> QED  BY <1>1, <2>1, <2>2, UpTo
  <2> QED  BY <2>3
<1>15. all = [k \in 0..n |-> all[k]]
  BY <1>10
<1>16. all \in [0..n -> Acc]
  <2> HIDE DEF Acc
  <2> QED  BY <1>14, <1>15
<1>17. Befores(all, w, n)
  BY <1>12, <1>13, <1>16 DEF Befores
<1> QED  BY <1>11, <1>17

\* Only the numbers of the commands before count.
LEMMA SameBefore ==
    ASSUME NEW n, NEW m \in 0..n, Numbers(n), NEW v, NEW w, NEW f, NEW g, Befores(f, v, m), Befores(g, w, n),
           \A k \in 1..m : v[k] = w[k]
    PROVE  \A k \in 0..m : f[k] = g[k]
<1> DEFINE T == {k \in 0..m : f[k] = g[k]}
<1>1. n \in Nat /\ m \in Nat /\ \A k \in 1..m : k \in 1..n
  BY DEF Numbers
<1>2. 0 \in T
  BY <1>1 DEF Befores
<1>3. \A k \in 1..m : k - 1 \in T => k \in T
  <2> TAKE k \in 1..m
  <2>1. f[k] = f[k - 1] \o Answer(k, v[k]) /\ g[k] = g[k - 1] \o Answer(k, w[k]) /\ v[k] = w[k]
    BY <1>1 DEF Befores
  <2>2. k \in 0..m
    BY <1>1
  <2>3. k - 1 \in T => f[k] = g[k]
    BY <2>1
  <2> QED  BY <2>2, <2>3
<1>4. \A k \in 0..m : k \in T
  <2> HIDE DEF T
  <2> QED  BY <1>1, <1>2, <1>3, UpTo
<1> QED  BY <1>4

LEMMA BeforeIsPrints ==
    ASSUME NEW n, Numbers(n), NEW w, \A k \in 1..n : w[k] \in 0..MaxMessages
    PROVE  AnswersBefore(n + 1, w) \in Seq(Prints) /\ AnswersBefore(1, w) = <<>>
<1>1. PICK f : Befores(f, w, n) /\ AnswersBefore(n + 1, w) = f[n]
  BY BeforeInSteps
<1>2. n \in 0..n /\ Numbers(0) /\ \A k \in 1..0 : FALSE
  BY DEF Numbers
<1>3. PICK g : Befores(g, w, 0) /\ AnswersBefore(0 + 1, w) = g[0]
  BY <1>2, BeforeInSteps
<1> QED  BY <1>1, <1>2, <1>3 DEF Befores

LEMMA BeforeGrows ==
    ASSUME NEW n \in Nat \ {0}, Numbers(n), NEW w, \A k \in 1..n : w[k] \in 0..MaxMessages
    PROVE  AnswersBefore(n + 1, w) = AnswersBefore(n, w) \o Answer(n, w[n])
<1>1. PICK f : Befores(f, w, n) /\ AnswersBefore(n + 1, w) = f[n]
  BY BeforeInSteps
<1>2. /\ n - 1 \in 0..n /\ Numbers(n - 1) /\ (n - 1) + 1 = n /\ n \in 1..n /\ n - 1 \in 0..(n - 1)
      /\ \A k \in 1..(n - 1) : k \in 1..n
  BY DEF Numbers
<1>3. PICK g : Befores(g, w, n - 1) /\ AnswersBefore((n - 1) + 1, w) = g[n - 1]
  BY <1>2, BeforeInSteps
<1>4. g[n - 1] = f[n - 1]
  <2> DEFINE m == n - 1
  <2>1. m \in 0..n /\ Befores(g, w, m) /\ Befores(f, w, n) /\ m \in 0..m
    BY <1>1, <1>2, <1>3
  <2> HIDE DEF m
  <2>2. \A k \in 0..m : g[k] = f[k]
    BY <2>1, SameBefore
  <2> QED  BY <2>1, <2>2 DEF m
<1>5. f[n] = f[n - 1] \o Answer(n, w[n])
  BY <1>1, <1>2 DEF Befores
<1> QED  BY <1>1, <1>2, <1>3, <1>4, <1>5

LEMMA BeforeStays ==
    ASSUME NEW n, Numbers(n), NEW v, NEW w, \A k \in 1..n : v[k] \in 0..MaxMessages /\ v[k] = w[k]
    PROVE  AnswersBefore(n + 1, v) = AnswersBefore(n + 1, w)
<1>1. PICK f : Befores(f, v, n) /\ AnswersBefore(n + 1, v) = f[n]
  BY BeforeInSteps
<1>2. PICK g : Befores(g, w, n) /\ AnswersBefore(n + 1, w) = g[n]
  BY BeforeInSteps
<1>3. n \in 0..n
  BY DEF Numbers
<1> QED  BY <1>1, <1>2, <1>3, SameBefore

\* Messages become lines one by one.
LEMMA TaggedIs ==
    ASSUME NEW i \in CommandNumbers, NEW a \in Seq(Messages)
    PROVE  /\ Tagged(i, a) \in Seq(Prints) /\ Len(Tagged(i, a)) = Len(a)
           /\ \A k \in 1..Len(a) : Tagged(i, a)[k] = Line(i, a[k])
<1> DEFINE t == Tagged(i, a)
           n == Len(a)
<1>1. n \in Nat /\ t = [k \in 1..n |-> Line(i, a[k])]
  BY LenProperties DEF Tagged
<1>2. \A k \in 1..n : Line(i, a[k]) \in Prints
  BY ElementOfSeq, LineIsPrint
<1> HIDE DEF n
<1>3. t \in [1..n -> Prints]
  BY <1>1, <1>2
<1>4. t \in Seq(Prints) /\ DOMAIN t = 1..n
  BY <1>1, <1>3, SeqDef
<1>5. Len(t) = n
  BY <1>1, <1>4, LenProperties
<1> QED  BY <1>1, <1>4, <1>5 DEF n

LEMMA TaggedBoth ==
    ASSUME NEW i \in CommandNumbers, NEW a \in Seq(Messages), NEW b \in Seq(Messages)
    PROVE  Tagged(i, a \o b) = Tagged(i, a) \o Tagged(i, b)
<1> DEFINE ab == a \o b
           s == Tagged(i, a)
           t == Tagged(i, b)
           u == Tagged(i, ab)
<1>1. /\ ab \in Seq(Messages) /\ Len(ab) = Len(a) + Len(b) /\ Len(a) \in Nat /\ Len(b) \in Nat
      /\ \A k \in 1..(Len(a) + Len(b)) : ab[k] = IF k <= Len(a) THEN a[k] ELSE b[k - Len(a)]
  BY ConcatProperties, LenProperties
<1> HIDE DEF ab
<1>2. /\ s \in Seq(Prints) /\ Len(s) = Len(a) /\ \A k \in 1..Len(a) : s[k] = Line(i, a[k])
      /\ t \in Seq(Prints) /\ Len(t) = Len(b) /\ \A k \in 1..Len(b) : t[k] = Line(i, b[k])
      /\ u \in Seq(Prints) /\ Len(u) = Len(ab) /\ \A k \in 1..Len(ab) : u[k] = Line(i, ab[k])
  BY <1>1, TaggedIs
<1> HIDE DEF s, t, u
<1>3. /\ s \o t \in Seq(Prints) /\ Len(s \o t) = Len(s) + Len(t)
      /\ \A k \in 1..(Len(s) + Len(t)) : (s \o t)[k] = IF k <= Len(s) THEN s[k] ELSE t[k - Len(s)]
  <2>1. s \in Seq(Prints) /\ t \in Seq(Prints)
    BY <1>2
  <2> QED  BY <2>1, ConcatProperties
<1>4. \A k \in 1..Len(u) : u[k] = (s \o t)[k]
  <2> TAKE k \in 1..Len(u)
  <2>1. k \in 1..(Len(a) + Len(b)) /\ k \in 1..(Len(s) + Len(t)) /\ k \in 1..Len(ab)
    BY <1>1, <1>2
  <2>2. CASE k <= Len(a)
    <3>1. k \in 1..Len(a)
      BY <1>1, <2>1, <2>2
    <3> QED  BY <1>1, <1>2, <1>3, <2>1, <2>2, <3>1
  <2>3. CASE ~(k <= Len(a))
    <3>1. k - Len(a) \in 1..Len(b)
      BY <1>1, <2>1, <2>3
    <3> QED  BY <1>1, <1>2, <1>3, <2>1, <2>3, <3>1
  <2> QED  BY <2>2, <2>3
<1>5. u = s \o t
  <2>1. Len(u) = Len(s \o t)
    BY <1>1, <1>2, <1>3
  <2> QED  BY <1>2, <1>3, <1>4, <2>1, SeqEqual
<1> QED  BY <1>5 DEF s, t, u, ab

LEMMA TaggedOne ==
    ASSUME NEW i \in CommandNumbers, NEW m \in Messages
    PROVE  Tagged(i, <<m>>) = <<Line(i, m)>> /\ Tagged(i, <<>>) = <<>>
<1> DEFINE s == <<m>>
           z == <<>>
<1>1. s \in Seq(Messages) /\ Len(s) = 1 /\ s[1] = m
  OBVIOUS
<1>2. z \in Seq(Messages) /\ Len(z) = 0
  BY EmptySeq
<1> HIDE DEF s, z
<1>3. /\ Tagged(i, s) \in Seq(Prints) /\ Len(Tagged(i, s)) = 1 /\ Tagged(i, s)[1] = Line(i, m)
  BY <1>1, TaggedIs
<1>4. Tagged(i, z) \in Seq(Prints) /\ Len(Tagged(i, z)) = 0
  BY <1>2, TaggedIs
<1>5. Tagged(i, s) = <<Line(i, m)>>
  <2> DEFINE u == Tagged(i, s)
             e == Line(i, m)
             one == <<e>>
  <2>1. u \in Seq(Prints) /\ Len(u) = 1 /\ u[1] = e /\ e \in Prints
    BY <1>3, LineIsPrint
  <2> HIDE DEF u, e
  <2>2. one \in Seq(Prints) /\ Len(one) = 1 /\ one[1] = e
    BY <2>1
  <2> HIDE DEF one
  <2>3. u = one
    BY <2>1, <2>2, SeqEqual
  <2> QED  BY <2>3 DEF u, e, one
<1>6. Tagged(i, z) = <<>>
  BY <1>4, EmptySeq
<1> QED  BY <1>5, <1>6 DEF s, z

---------------------------------------------------------------------------
(* Writing to a connection that is not done.                               *)

Same(c, d) ==
    /\ d.no = c.no /\ d.link = c.link /\ d.mDone = c.mDone /\ d.mSilent = c.mSilent
    /\ d.stream = c.stream /\ d.lookups = c.lookups /\ d.loggers = c.loggers

LEMMA writeMoreSame ==
    ASSUME NEW c \in Conns, ~c.mDone
    PROVE  Same(c, writeMore(c))
<1> DEFINE n == Min(SocketSize - Len(c.wire), Len(c.unsent))
           wire == c.wire \o SubSeq(c.unsent, 1, n)
           kept == SubSeq(c.unsent, n + 1, Len(c.unsent))
           moved == [c EXCEPT !.wire = wire, !.unsent = kept]
           left == moved.mPendingWrite - n
           now == [moved EXCEPT !.mPendingWrite = left]
<1>1. writeMore(c) = IF n = 0 THEN c ELSE dataWritten(moved, n)
  BY DEF writeMore, Conns
<1>2. moved.mDone = c.mDone
  BY DEF Conns
<1>3. dataWritten(moved, n) = now
  <2>1. dataWritten(moved, n) = IF left = 0 /\ moved.mDone THEN Disconnect(now) ELSE now
    BY DEF dataWritten
  <2> QED  BY <1>2, <2>1
<1> HIDE DEF left, n, wire, kept
<1>4. Same(c, now)
  BY DEF Conns, Same
<1>5. Same(c, c)
  BY DEF Same
<1> QED  BY <1>1, <1>3, <1>4, <1>5

LEMMA sendSame ==
    ASSUME NEW c \in Conns, ~c.mDone, NEW i \in CommandNumbers, NEW nr \in 1..MaxMessages
    PROVE  Same(c, send(c, i, nr))
<1>1. CASE ~Sends(c)
  BY <1>1 DEF send, Same
<1>2. CASE Sends(c)
  <2> DEFINE more == c.mPendingWrite + HeaderSize + BodySize[nr]
             counted == [c EXCEPT !.mPendingWrite = more]
             unsent == c.unsent \o Bytes(i, nr)
             full == [c EXCEPT !.mPendingWrite = more, !.unsent = unsent]
  <2>1. more \in Nat /\ unsent \in Seq(ByteSet)
    <3>1. Bytes(i, nr) \in Seq(ByteSet) /\ c.unsent \in Seq(ByteSet)
      BY BytesAreWhole DEF Whole, Conns
    <3>2. unsent \in Seq(ByteSet)
      BY <3>1, ConcatProperties
    <3> QED  BY <3>2, SizesAssumption DEF Conns
  <2>2. send(c, i, nr) = writeMore([counted EXCEPT !.unsent = @ \o Bytes(i, nr)])
    BY <1>2 DEF send, write
  <2>3. [counted EXCEPT !.unsent = @ \o Bytes(i, nr)] = full
    <3> HIDE DEF more
    <3> QED  BY DEF Conns
  <2> HIDE DEF more, unsent
  <2>4. full \in Conns /\ full.mDone = c.mDone
    BY <2>1 DEF Conns
  <2>5. Same(c, full)
    BY DEF Same, Conns
  <2> HIDE DEF full
  <2>6. Same(full, writeMore(full))
    BY <2>4, writeMoreSame
  <2> QED  BY <2>2, <2>3, <2>5, <2>6 DEF Same
<1> QED  BY <1>1, <1>2

\* What n messages add to the answer.
LEMMA sendAllAnswers ==
    ASSUME NEW c, Settled(c), ~c.mDone, NEW i \in Commands, Commands \subseteq CommandNumbers,
           NEW n \in Nat, written[i] \in Nat, written[i] + n <= MaxMessages
    PROVE  /\ Same(c, sendAll(c, i, n))
           /\ \E x : /\ Whole(x) /\ Sent(c, sendAll(c, i, n), x)
                     /\ Answer(i, written[i] + (IF Sends(c) THEN n ELSE 0)) =
                            Answer(i, written[i]) \o Tagged(i, MessagesIn(x))
<1> DEFINE w == written[i]
           A(k) == Answer(i, w + (IF Sends(c) THEN k ELSE 0))
           Did(d, k) == \E x : Whole(x) /\ Sent(c, d, x) /\ A(k) = A(0) \o Tagged(i, MessagesIn(x))
<1>1. PICK f : /\ sendAll(c, i, n) = f[n] /\ f[0] = c
               /\ \A k \in 1..n : /\ f[k] = send(f[k - 1], i, w + k)
                                  /\ w + k \in 1..MaxMessages
               /\ \A k \in 0..n : Settled(f[k])
  BY sendAllSteps
<1>2. i \in CommandNumbers /\ w \in Nat /\ MaxMessages \in Nat /\ w + 0 = w
  BY SizesAssumption
<1>3. \A k \in 0..n : A(k) \in Seq(Prints)
  <2> TAKE k \in 0..n
  <2>1. w + (IF Sends(c) THEN k ELSE 0) \in 0..MaxMessages
    BY <1>2
  <2> QED  BY <1>2, <2>1, AnswerIsPrints
<1>4. MessagesIn(<<>>) = <<>> /\ <<>> \in Seq(ByteSet)
  <2>1. <<>> \in Seq(ByteSet) /\ \A k \in 1..Len(<<>>) : FALSE
    BY EmptySeq
  <2> QED  BY <2>1, NoMessages
<1>5. Tagged(i, <<>>) = <<>>
  BY <1>2, EmptySeq, TaggedIs
<1> DEFINE T == {k \in 0..n : Same(c, f[k]) /\ Did(f[k], k)}
<1>6. 0 \in T
  <2>1. Sent(c, c, <<>>)
    BY LeftIsSeq DEF Sent, Settled
  <2>2. 0 \in 0..n
    OBVIOUS
  <2>3. A(0) = A(0) \o Tagged(i, MessagesIn(<<>>))
    <3>1. A(0) \in Seq(Prints)
      BY <1>3, <2>2
    <3> HIDE DEF A
    <3> QED  BY <1>4, <1>5, <3>1, ConcatEmptySeq
  <2>4. Did(c, 0)
    <3> HIDE DEF A
    <3> QED  BY <2>1, <2>3, NothingIsWhole
  <2>5. Same(c, c)
    BY DEF Same
  <2> HIDE DEF Did
  <2> QED  BY <1>1, <2>2, <2>4, <2>5
<1>7. ASSUME NEW k \in 1..n, k - 1 \in T
      PROVE  k \in T
  <2> DEFINE d == f[k - 1]
             nr == w + k
             y == IF Sends(d) THEN Bytes(i, nr) ELSE <<>>
  <2>1. k - 1 \in 0..n /\ k \in 0..n
    OBVIOUS
  <2>2. Same(c, d) /\ Did(d, k - 1) /\ Settled(d) /\ f[k] = send(d, i, nr) /\ nr \in 1..MaxMessages
    <3>1. Same(c, d) /\ Did(d, k - 1)
      BY <1>7
    <3>2. Settled(d) /\ f[k] = send(d, i, nr) /\ nr \in 1..MaxMessages
      BY <1>1, <2>1
    <3> QED  BY <3>1, <3>2
  <2>3. PICK x : Whole(x) /\ Sent(c, d, x) /\ A(k - 1) = A(0) \o Tagged(i, MessagesIn(x))
    BY <2>2
  <2>4. d \in Conns /\ ~d.mDone /\ (Sends(d) <=> Sends(c)) /\ c \in Conns
    BY <2>2 DEF Settled, Same, Sends
  <2> HIDE DEF nr, d
  <2>5. Same(d, f[k])
    BY <1>2, <2>2, <2>4, sendSame
  <2>6. Same(c, f[k])
    BY <2>2, <2>5 DEF Same
  <2>7. Whole(y) /\ Sent(d, f[k], y)
    BY <1>2, <2>2, BytesAreWhole, NothingIsWhole, sendSends
  <2>8. A(k) = A(k - 1) \o Tagged(i, MessagesIn(y))
    <3>1. A(k - 1) \in Seq(Prints)
      BY <1>3, <2>1
    <3>2. CASE Sends(d)
      <4> DEFINE before == A(k - 1)
                 e == Line(i, <<i, nr>>)
      <4>1. A(k) = Answer(i, nr) /\ A(k - 1) = Answer(i, nr - 1)
        <5>1. w + k = nr /\ w + (k - 1) = nr - 1
          BY <1>2 DEF nr
        <5> QED  BY <2>4, <3>2, <5>1
      <4>2. A(k) = AnswerStep(i, nr, before)
        BY <1>2, <2>2, <4>1, AnswerGrows
      <4>3. MessagesIn(y) = IF BodySize[nr] > 0 THEN <<<<i, nr>>>> ELSE <<>>
        BY <1>2, <2>2, <3>2, BytesAreWhole
      <4>4. <<i, nr>> \in Messages
        BY <1>2, <2>2 DEF Messages, CommandNumbers
      <4>5. e \in Prints /\ Tagged(i, <<<<i, nr>>>>) = <<e>>
        BY <1>2, <4>4, LineIsPrint, TaggedOne
      <4> HIDE DEF A, y, before, e
      <4>6. CASE BodySize[nr] > 0
        <5>1. A(k) = Append(before, e)
          BY <4>2, <4>6 DEF AnswerStep, e
        <5>2. before \in Seq(Prints)
          BY <3>1 DEF before
        <5>3. Append(before, e) = before \o <<e>>
          BY <4>5, <5>2, AppendIsConcat
        <5> QED  BY <4>3, <4>5, <4>6, <5>1, <5>3 DEF before
      <4>7. CASE ~(BodySize[nr] > 0)
        <5>1. A(k) = before /\ Tagged(i, MessagesIn(y)) = <<>>
          BY <1>5, <4>2, <4>3, <4>7 DEF AnswerStep
        <5>2. before \o <<>> = before
          BY <3>1, ConcatEmptySeq DEF before
        <5> QED  BY <5>1, <5>2 DEF before
      <4> QED  BY <4>6, <4>7
    <3>3. CASE ~Sends(d)
      <4>1. A(k) = A(k - 1) /\ y = <<>>
        BY <2>4, <3>3
      <4> HIDE DEF A, y
      <4> QED  BY <1>4, <1>5, <3>1, <4>1, ConcatEmptySeq
    <3> QED  BY <3>2, <3>3
  <2> HIDE DEF y
  <2>9. Whole(x \o y) /\ Sent(c, f[k], x \o y)
    <3>1. x \in Seq(ByteSet) /\ y \in Seq(ByteSet)
      BY <2>3, <2>7 DEF Whole
    <3> QED  BY <2>3, <2>4, <2>7, <3>1, WholeGoesOn, SentBoth
  <2>10. A(k) = A(0) \o Tagged(i, MessagesIn(x \o y))
    <3> DEFINE a == MessagesIn(x)
               b == MessagesIn(y)
    <3>1. x \in Seq(ByteSet) /\ y \in Seq(ByteSet)
      BY <2>3, <2>7 DEF Whole
    <3>2. a \in Seq(Messages) /\ b \in Seq(Messages) /\ MessagesIn(x \o y) = a \o b
      BY <3>1, MessagesAreMessages, MessagesInBoth
    <3> DEFINE s == Tagged(i, a)
               t == Tagged(i, b)
               z == A(0)
    <3> HIDE DEF a, b
    <3>3. Tagged(i, a \o b) = s \o t /\ s \in Seq(Prints) /\ t \in Seq(Prints)
      BY <1>2, <3>2, TaggedBoth, TaggedIs
    <3>4. z \in Seq(Prints)
      <4>1. 0 \in 0..n
        OBVIOUS
      <4> QED  BY <1>3, <4>1
    <3>5. A(k) = (z \o s) \o t
      BY <2>3, <2>8 DEF a, b
    <3> HIDE DEF s, t, z, A
    <3>6. (z \o s) \o t = z \o (s \o t)
      BY <3>3, <3>4, ConcatAssociative, SMTT(30)
    <3> QED  BY <3>2, <3>3, <3>5, <3>6 DEF z
  <2>11. Did(f[k], k)
    <3> HIDE DEF A
    <3> QED  BY <2>9, <2>10
  <2> HIDE DEF Did
  <2> QED  BY <2>1, <2>6, <2>11
<1>8. \A k \in 0..n : k \in T
  <2> HIDE DEF T
  <2> QED  BY <1>6, <1>7, UpTo
<1>9. Same(c, f[n]) /\ Did(f[n], n)
  <2>1. n \in 0..n
    OBVIOUS
  <2> HIDE DEF Did
  <2> QED  BY <1>8, <2>1
<1>10. PICK x : Whole(x) /\ Sent(c, f[n], x) /\ A(n) = A(0) \o Tagged(i, MessagesIn(x))
  BY <1>9
<1>11. A(n) = Answer(i, w) \o Tagged(i, MessagesIn(x))
  <2>1. A(0) = Answer(i, w)
    BY <1>2
  <2> HIDE DEF A
  <2> QED  BY <1>10, <2>1
<1> HIDE DEF Did, T
<1> QED  BY <1>1, <1>9, <1>10, <1>11

\* The answer to Shutdown, the only one on its connection, fits the socket.
LEMMA AnswerFits ==
    ASSUME NEW c, Settled(c), c.wire = <<>>, c.unsent = <<>>, ~c.mDone, NEW i \in Commands,
           Commands \subseteq CommandNumbers, written[i] = 0, 1 <= MaxMessages
    PROVE  sendAll(c, i, 1).unsent = <<>>
<1>1. /\ written[i] \in Nat /\ written[i] + 1 <= MaxMessages /\ written[i] + 1 = 1
      /\ 1 \in Nat /\ 1 \in 1..1 /\ 1 - 1 = 0 /\ 1 \in 1..MaxMessages
  BY SizesAssumption
<1>2. PICK f : /\ sendAll(c, i, 1) = f[1] /\ f[0] = c
               /\ \A k \in 1..1 : f[k] = send(f[k - 1], i, written[i] + k)
  BY <1>1, sendAllSteps
<1>3. sendAll(c, i, 1) = send(c, i, 1)
  <2>1. f[1] = send(f[1 - 1], i, written[i] + 1)
    BY <1>1, <1>2
  <2> QED  BY <1>1, <1>2, <2>1
<1>4. CASE ~Sends(c)
  BY <1>3, <1>4 DEF send
<1>5. CASE Sends(c)
  <2> DEFINE data == Bytes(i, 1)
             more == c.mPendingWrite + HeaderSize + BodySize[1]
             counted == [c EXCEPT !.mPendingWrite = more]
             full == [counted EXCEPT !.unsent = @ \o data]
             n == Min(SocketSize - Len(full.wire), Len(full.unsent))
             kept == SubSeq(full.unsent, n + 1, Len(full.unsent))
  <2>1. data \in Seq(ByteSet) /\ Len(data) = HeaderSize + BodySize[1] /\ Len(data) \in Nat \ {0}
    BY <1>1, BytesAreWhole, SizeIsPositive DEF Whole, Size
  <2>2. send(c, i, 1) = writeMore(full)
    BY <1>5 DEF send, write
  <2>3. full.unsent = data /\ full.wire = <<>>
    <3>1. full.unsent = c.unsent \o data /\ full.wire = c.wire
      <4> HIDE DEF data, more
      <4> QED  BY DEF Settled, Conns
    <3> HIDE DEF full, data
    <3> QED  BY <2>1, <3>1, ConcatEmptySeq
  <2>4. Len(full.wire) = 0
    BY <2>3, EmptySeq
  <2> HIDE DEF full, data
  <2>5. n = Len(data)
    <3>1. Len(data) <= SocketSize /\ SocketSize \in Nat
      BY <1>1, <2>1, ShutdownAssumption, SizesAssumption
    <3> QED  BY <2>1, <2>3, <2>4, <3>1 DEF Min
  <2> HIDE DEF n
  <2>6. kept = <<>>
    BY <2>1, <2>3, <2>5, SubSeqEmpty
  <2>7. writeMore(full).unsent = <<>>
    <3> DEFINE wire == full.wire \o SubSeq(full.unsent, 1, n)
               moved == [full EXCEPT !.wire = wire, !.unsent = kept]
               left == moved.mPendingWrite - n
               now == [moved EXCEPT !.mPendingWrite = left]
    <3>1. writeMore(full) = dataWritten([full EXCEPT !.wire = @ \o SubSeq(full.unsent, 1, n),
                                                      !.unsent = SubSeq(@, n + 1, Len(@))], n)
      BY <2>1, <2>5 DEF writeMore, n
    <3>2. full \in Conns
      <4>1. more \in Nat /\ full.unsent \in Seq(ByteSet)
        BY <1>1, <2>1, <2>3, SizesAssumption DEF Settled, Conns
      <4> HIDE DEF more
      <4>2. full = [c EXCEPT !.mPendingWrite = more, !.unsent = full.unsent]
        BY DEF full, Settled, Conns
      <4> QED  BY <4>1, <4>2 DEF Settled, Conns
    <3>3. writeMore(full) = dataWritten(moved, n)
      BY <3>1, <3>2 DEF Conns
    <3> HIDE DEF kept, wire
    <3>4. dataWritten(moved, n) \in {now, Disconnect(now)}
      BY DEF dataWritten
    <3> HIDE DEF left
    <3>5. now.unsent = kept /\ Disconnect(now).unsent = kept
      BY <3>2 DEF Conns, Disconnect
    <3> QED  BY <2>6, <3>3, <3>4, <3>5
  <2> QED  BY <1>3, <2>2, <2>7
<1> QED  BY <1>4, <1>5

---------------------------------------------------------------------------
(* What is so as long as no command was cut short.                         *)

Asks == setup.mCommands[cmd].type
Joined == conn.link \in {"backlog", "open"}
Idle == pc \in {"start", "exec", "done", "crashed"}
Due == IF cmd \in Commands THEN written[cmd] ELSE 0

\* rc printed the answers to the commands before c, and of the answer to c
\* what is not in flight.
Lined(lines, c, due, w, flight) ==
    \E p \in Seq(Prints) : /\ lines = AnswersBefore(c, w) \o p
                           /\ p \o Tagged(c, flight) = Answer(c, due)
PrintInv == Lined(printed, cmd, Due, written, InFlight)

\* rdm has nothing to do for rc.
AtRest == toServer = <<>> /\ conn.lookups = {} /\ conn.loggers = {} /\ processes = {}
Untouched == conn.wire = <<>> /\ conn.unsent = <<>> /\ ~conn.mDone /\ ~conn.stream

CountInv ==
    /\ cmd \in 1 .. Len(setup.mCommands) + 1
    /\ \A i \in Commands : i > cmd => written[i] = 0
    /\ ~Joined => AtRest

\* Between two commands.
RestInv ==
    /\ AtRest /\ "q" \notin pipe /\ Due = 0 /\ InFlight = <<>>
    /\ pc = "start" => slots = 0
    /\ mConnection => slots = 0 /\ Joined /\ Untouched

\* rc leaves its loop for an end of the stream, and for nothing else.
LoopInv ==
    /\ slots = 1 /\ cmd \in Commands
    /\ "q" \in pipe \/ mQuit => ~mConnection
    /\ mQuit => "q" \notin pipe

\* A query of this type keeps its connection for ever.
Lasts(type) == \E o \in Outcomes(type) : o.then = "stream"

StreamInv ==
    /\ Joined /\ mConnection /\ ~conn.mDone /\ processes = {} /\ conn.loggers = {}
    /\ \A j \in conn.lookups : j[1] = cmd
    /\ \A k \in 1..Len(toServer) : toServer[k].cmd = cmd /\ toServer[k].type \in {Asks, "Completion"}
    /\ conn.stream \/ (toServer # <<>> /\ Head(toServer).type = Asks /\ conn.lookups = {})

\* One query is under way, or one activity works on its answer, or none does.
Waiting ==
    /\ toServer = <<Asked(0)>> /\ Untouched /\ written[cmd] = 0
    /\ conn.lookups = {} /\ conn.loggers = {} /\ processes = {}
Working ==
    /\ toServer = <<>> /\ ~conn.mDone
    /\ \/ conn.lookups = {<<cmd, 0>>} /\ conn.loggers = {} /\ processes = {}
       \/ conn.lookups = {} /\ conn.loggers = {cmd} /\ processes = {}
       \/ conn.lookups = {} /\ conn.loggers = {} /\ processes = {<<cmd, conn.no>>}
AnswerInv == ~conn.stream /\ (Waiting \/ (Asks # "Shutdown" /\ (Working \/ AtRest)))

ServedInv ==
    /\ Lasts(Asks) => StreamInv
    /\ ~Lasts(Asks) /\ Joined => AnswerInv

CalmInv ==
    /\ PrintInv /\ CountInv
    /\ Idle => RestInv
    /\ ~Idle => LoopInv /\ ServedInv

LEMMA SameCommand ==
    ASSUME UNCHANGED <<setup, cmd>>
    PROVE  /\ Asks' = Asks /\ Commands' = Commands /\ Asked(0)' = Asked(0)
           /\ Lasts(Asks)' = Lasts(Asks)
  BY DEF Asks, Commands, Asked, Lasts, Outcomes, Outcome, AnyNumber, cursorInfo, dumpFile, status,
         reindex, fixIts, preprocessFile, startCompletion

LEMMA PrintNext ==
    ASSUME Lined(printed', cmd', Due', written', InFlight')
    PROVE  PrintInv'
  BY DEF PrintInv, Lined, AnswersBefore, Answer, Tagged, Line, Prints, Messages

LEMMA PrintStays ==
    ASSUME PrintInv, UNCHANGED <<setup, cmd, printed, written>>, InFlight' = InFlight
    PROVE  PrintInv'
<1>1. Due' = Due
  BY DEF Due, Commands
<1>2. Lined(printed', cmd', Due', written', InFlight')
  BY <1>1 DEF PrintInv
<1> QED  BY <1>2, PrintNext

LEMMA CommandsAre ==
    ASSUME TypeInv, CountInv
    PROVE  /\ Commands = 1..Len(setup.mCommands) /\ Len(setup.mCommands) \in Nat /\ cmd \in Nat \ {0}
           /\ Numbers(cmd - 1) /\ (cmd - 1) + 1 = cmd /\ (cmd \in Commands => cmd \in CommandNumbers)
           /\ \A k \in 1..(cmd - 1) : k \in Commands /\ written[k] \in 0..MaxMessages
           /\ Due \in 0..MaxMessages
<1>1. setup.mCommands \in Seq(OptionSet) /\ Commands \subseteq CommandNumbers
  BY DEF TypeInv, SetupTypes, Setups
<1>2. Len(setup.mCommands) \in Nat /\ DOMAIN setup.mCommands = 1..Len(setup.mCommands)
  BY <1>1, LenProperties
<1>3. written \in [Commands -> 0..MaxMessages]
  BY DEF TypeInv, ServerTypes
<1>4. Commands = 1..Len(setup.mCommands)
  BY <1>2 DEF Commands
<1>5. cmd \in Nat \ {0} /\ \A k \in 1..(cmd - 1) : k \in Commands
  BY <1>2, <1>4 DEF CountInv
<1>6. Due \in 0..MaxMessages
  BY <1>3, SizesAssumption DEF Due
<1> QED  BY <1>1, <1>2, <1>3, <1>4, <1>5, <1>6 DEF Numbers

\* The bytes x behind those that were on their way.
LEMMA StreamGrows ==
    ASSUME IInv, IInv', UNCHANGED reader, NEW x \in Seq(ByteSet), Sent(conn, conn', x)
    PROVE  InFlight' = InFlight \o MessagesIn(x)
<1>1. Stream' = Unread(reader) \o Left(conn')
  <2>1. Stream' = StreamIs(reader', conn')
    BY DEF Stream, StreamIs
  <2>2. reader' \in Readers /\ conn'.wire \in Seq(ByteSet) /\ conn'.unsent \in Seq(ByteSet)
        /\ reader'.mReadBufferPos <= Len(reader'.mReadBuffer)
    BY DEF IInv, TypeInv, RcTypes, ServerTypes, BooksInv, Sent, Settled, Conns
  <2>3. StreamIs(reader', conn') = Unread(reader') \o Left(conn')
    BY <2>2, StreamIsSeq
  <2> QED  BY <2>1, <2>3
<1>2. /\ Unread(reader) \in Seq(ByteSet) /\ Left(conn) \in Seq(ByteSet) /\ Stream \in Seq(ByteSet)
      /\ Stream = Unread(reader) \o Left(conn)
  BY StreamNow DEF IInv
<1>3. Left(conn') = Left(conn) \o x
  BY DEF Sent
<1>4. Stream' = Stream \o x
  <2> DEFINE U == Unread(reader)
             L == Left(conn)
  <2>1. U \in Seq(ByteSet) /\ L \in Seq(ByteSet)
    BY <1>2
  <2>2. Stream' = U \o (L \o x) /\ Stream = U \o L
    BY <1>1, <1>2, <1>3
  <2> HIDE DEF U, L
  <2>3. (U \o L) \o x = U \o (L \o x)
    BY <2>1, ConcatAssociative, SMTT(30)
  <2> QED  BY <2>2, <2>3
<1>5. InFlight' = MessagesIn(Stream') /\ InFlight = MessagesIn(Stream)
  BY DEF InFlight, MessagesIn, EndsMessage
<1> DEFINE s == Stream
<1>6. s \in Seq(ByteSet) /\ InFlight' = MessagesIn(s \o x) /\ InFlight = MessagesIn(s)
  BY <1>2, <1>4, <1>5
<1> HIDE DEF s
<1> QED  BY <1>6, MessagesInBoth

\* rdm writes n messages, the bytes x, for the command that rc runs.
LEMMA WritesAreAnswers ==
    ASSUME IInv, IInv', CalmInv, UNCHANGED <<setup, cmd, reader, printed>>, cmd \in Commands,
           NEW x, Whole(x), Sent(conn, conn', x),
           NEW n \in Nat, written[cmd] + n <= MaxMessages,
           written' = [written EXCEPT ![cmd] = @ + n],
           Answer(cmd, written[cmd] + n) = Answer(cmd, written[cmd]) \o Tagged(cmd, MessagesIn(x))
    PROVE  PrintInv' /\ \A i \in Commands : i > cmd => written'[i] = 0
<1> DEFINE v == written'
           w == written
           due == written[cmd]
           more == written[cmd] + n
           fl == InFlight
           ms == MessagesIn(x)
<1>1. /\ TypeInv /\ CountInv /\ PrintInv /\ cmd \in Nat \ {0} /\ cmd \in CommandNumbers
      /\ Numbers(cmd - 1) /\ (cmd - 1) + 1 = cmd
      /\ \A k \in 1..(cmd - 1) : k \in Commands /\ written[k] \in 0..MaxMessages
      /\ written \in [Commands -> 0..MaxMessages] /\ Commands = 1..Len(setup.mCommands)
  BY CommandsAre DEF IInv, CalmInv, TypeInv, ServerTypes
<1>2. v[cmd] = more /\ \A k \in Commands : k # cmd => v[k] = w[k]
  BY <1>1
<1>3. x \in Seq(ByteSet) /\ fl \in Seq(Messages) /\ ms \in Seq(Messages)
  BY StreamNow, MessagesAreMessages DEF Whole, IInv
<1>4. InFlight' = fl \o ms
  BY <1>3, StreamGrows
<1>5. AnswersBefore(cmd, v) = AnswersBefore(cmd, w)
  <2>1. \A k \in 1..(cmd - 1) : w[k] \in 0..MaxMessages /\ w[k] = v[k]
    BY <1>1, <1>2
  <2> HIDE DEF v, w
  <2>2. AnswersBefore((cmd - 1) + 1, w) = AnswersBefore((cmd - 1) + 1, v)
    BY <1>1, <2>1, BeforeStays
  <2> QED  BY <1>1, <2>2
<1>6. PICK p \in Seq(Prints) : /\ printed = AnswersBefore(cmd, w) \o p
                               /\ p \o Tagged(cmd, fl) = Answer(cmd, due)
  BY <1>1 DEF PrintInv, Lined, Due
<1>7. p \o Tagged(cmd, fl \o ms) = Answer(cmd, more)
  <2> DEFINE s == Tagged(cmd, fl)
             t == Tagged(cmd, ms)
  <2> HIDE DEF fl, ms
  <2>1. Tagged(cmd, fl \o ms) = s \o t /\ s \in Seq(Prints) /\ t \in Seq(Prints)
    BY <1>1, <1>3, TaggedBoth, TaggedIs
  <2>2. Answer(cmd, more) = (p \o s) \o t
    BY <1>6 DEF ms
  <2> HIDE DEF s, t
  <2>3. (p \o s) \o t = p \o (s \o t)
    BY <2>1, ConcatAssociative, SMTT(30)
  <2> QED  BY <2>1, <2>2, <2>3
<1>8. Due' = more
  BY <1>2, SetupStays DEF Due
<1>9. Lined(printed', cmd', Due', written', InFlight')
  <2>1. printed' = AnswersBefore(cmd', written') \o p
    BY <1>5, <1>6
  <2>2. p \o Tagged(cmd', InFlight') = Answer(cmd', Due')
    BY <1>4, <1>7, <1>8
  <2> QED  BY <2>1, <2>2 DEF Lined
<1>10. \A i \in Commands : i > cmd => v[i] = 0
  BY <1>1, <1>2 DEF CountInv
<1> QED  BY <1>9, <1>10, PrintNext

---------------------------------------------------------------------------
(* rdm keeps to the command that rc runs.                                  *)

LEMMA OutcomesAre ==
    ASSUME NEW type, NEW o \in Outcomes(type)
    PROVE  /\ o.then \in {"finish", "job", "log", "process", "stream", "nothing"}
           /\ o.then = "stream" <=> Lasts(type)
           /\ type = "Completion" => o.then \in {"finish", "job", "nothing"}
           /\ type = "Shutdown" => ~Lasts(type)
<1>1. \A ns, then : \A e \in Outcome(ns, then) : e.then = then
  BY DEF Outcome
<1>2. CASE type \in Lookups \cup SymbolQueries \cup ProjectQueries \cup OneAnswer \cup YesOrNo
  <2>1. \A e \in Outcomes(type) : e \in Outcome(AnyNumber, "finish") \/ e \in Outcome({1}, "finish")
    <3>1. CASE type \in Lookups \cup SymbolQueries \cup ProjectQueries
      BY <3>1 DEF Outcomes, Lookups, SymbolQueries, ProjectQueries, OneAnswer, YesOrNo
    <3>2. CASE type \in OneAnswer \cup YesOrNo
      BY <3>2 DEF Outcomes, OneAnswer, YesOrNo, Lookups, SymbolQueries, ProjectQueries
    <3> QED  BY <1>2, <3>1, <3>2
  <2>2. \A e \in Outcomes(type) : e.then = "finish"
    BY <1>1, <2>1
  <2>3. type # "Completion"
    BY <1>2 DEF Lookups, SymbolQueries, ProjectQueries, OneAnswer, YesOrNo
  <2> QED  BY <2>2, <2>3 DEF Lasts
<1>3. CASE type \in {"CursorInfo", "DumpFile", "Status", "Reindex", "FixIts", "PreprocessFile",
                     "Completion", "Compile", "CreateOutput"}
  <2>1. type \notin Lookups \cup SymbolQueries \cup ProjectQueries \cup OneAnswer \cup YesOrNo
    BY <1>3 DEF Lookups, SymbolQueries, ProjectQueries, OneAnswer, YesOrNo
  <2>2. Outcomes(type) \in {cursorInfo, dumpFile, status, reindex, fixIts, preprocessFile, startCompletion,
                            Outcome({0}, "finish"), Outcome({0, 1}, "log")}
    BY <1>3, <2>1 DEF Outcomes
  <2>3. \A e \in Outcomes(type) : e.then \in {"finish", "job", "log", "process", "nothing"}
    BY <1>1, <2>2 DEF cursorInfo, dumpFile, status, reindex, fixIts, preprocessFile, startCompletion
  <2>4. type = "Completion" => Outcomes(type) = startCompletion
    BY <2>1 DEF Outcomes
  <2>5. type = "Completion" => o.then \in {"finish", "job", "nothing"}
    BY <1>1, <2>4 DEF startCompletion
  <2> QED  BY <1>3, <2>3, <2>5 DEF Lasts
<1>4. CASE type \notin Lookups \cup SymbolQueries \cup ProjectQueries \cup OneAnswer \cup YesOrNo
                       \cup {"CursorInfo", "DumpFile", "Status", "Reindex", "FixIts", "PreprocessFile",
                             "Completion", "Compile", "CreateOutput"}
  <2>1. Outcomes(type) = Outcome({0}, "stream")
    BY <1>4 DEF Outcomes
  <2>2. o.then = "stream"
    BY <1>1, <2>1
  <2> QED  BY <1>4, <2>2 DEF Lasts, OneAnswer
<1> QED  BY <1>2, <1>3, <1>4

LEMMA StreamLasts == Lasts("Stream") /\ ~Lasts("Completion")
<1>1. Outcomes("Stream") = Outcome({0}, "stream")
  BY DEF Outcomes, Lookups, SymbolQueries, ProjectQueries, OneAnswer, YesOrNo
<1>2. \E o \in Outcome({0}, "stream") : o.then = "stream"
  <2>1. [writes |-> 0, then |-> "stream"] \in Outcome({0}, "stream")
    BY DEF Outcome
  <2>2. [writes |-> 0, then |-> "stream"].then = "stream"
    OBVIOUS
  <2> QED  BY <2>1, <2>2
<1>3. \A o \in Outcomes("Completion") : o.then # "stream"
  BY OutcomesAre
<1> QED  BY <1>1, <1>2, <1>3 DEF Lasts

\* finish() closes the connection, or will when the last bytes are taken.
LEMMA FinishIs ==
    ASSUME NEW c \in Conns
    PROVE  LET d == finish(c)
           IN /\ d.stream = c.stream
              /\ \/ d.link = "closed" /\ d.lookups = {} /\ d.loggers = {}
                 \/ d.lookups = c.lookups /\ d.loggers = c.loggers
<1> DEFINE done == [c EXCEPT !.mDone = TRUE]
           left == done.mPendingWrite - 0
           now == [done EXCEPT !.mPendingWrite = left]
<1>1. finish(c) = IF left = 0 /\ done.mDone THEN Disconnect(now) ELSE now
  BY DEF finish, dataWritten
<1> HIDE DEF left
<1>2. now.stream = c.stream /\ now.lookups = c.lookups /\ now.loggers = c.loggers
  BY DEF Conns
<1>3. /\ Disconnect(now).link = "closed" /\ Disconnect(now).lookups = {} /\ Disconnect(now).loggers = {}
      /\ Disconnect(now).stream = c.stream
  BY DEF Disconnect, Conns
<1> QED  BY <1>1, <1>2, <1>3

LEMMA writeMoreIs ==
    ASSUME NEW c \in Conns
    PROVE  LET d == writeMore(c)
           IN /\ d.stream = c.stream
              /\ \/ d.link = "closed" /\ d.lookups = {} /\ d.loggers = {}
                 \/ d.lookups = c.lookups /\ d.loggers = c.loggers
<1> DEFINE n == Min(SocketSize - Len(c.wire), Len(c.unsent))
           wire == c.wire \o SubSeq(c.unsent, 1, n)
           kept == SubSeq(c.unsent, n + 1, Len(c.unsent))
           moved == [c EXCEPT !.wire = wire, !.unsent = kept]
           left == moved.mPendingWrite - n
           now == [moved EXCEPT !.mPendingWrite = left]
<1>1. writeMore(c) = IF n = 0 THEN c ELSE dataWritten(moved, n)
  BY DEF writeMore, Conns
<1>2. dataWritten(moved, n) \in {now, Disconnect(now)}
  BY DEF dataWritten
<1> HIDE DEF left, n, wire, kept
<1>3. now.stream = c.stream /\ now.lookups = c.lookups /\ now.loggers = c.loggers
  BY DEF Conns
<1>4. /\ Disconnect(now).link = "closed" /\ Disconnect(now).lookups = {} /\ Disconnect(now).loggers = {}
      /\ Disconnect(now).stream = c.stream
  BY DEF Disconnect, Conns
<1> QED  BY <1>1, <1>2, <1>3, <1>4

LEMMA OneSend ==
    ASSUME NEW c, Settled(c), NEW i \in Commands, Commands \subseteq CommandNumbers,
           written[i] \in Nat, written[i] + 1 <= MaxMessages
    PROVE  sendAll(c, i, 1) = send(c, i, written[i] + 1)
<1>1. 1 \in Nat /\ 1 \in 1..1 /\ 1 - 1 = 0
  OBVIOUS
<1>2. PICK f : /\ sendAll(c, i, 1) = f[1] /\ f[0] = c
               /\ \A k \in 1..1 : f[k] = send(f[k - 1], i, written[i] + k)
  BY <1>1, sendAllSteps
<1>3. f[1] = send(f[1 - 1], i, written[i] + 1)
  BY <1>1, <1>2
<1> QED  BY <1>1, <1>2, <1>3

\* A handler writes n messages to the connection c, which becomes conn'.
LEMMA HandlerWrites ==
    ASSUME IInv, IInv', CalmInv, UNCHANGED <<setup, rcVars>>, cmd \in Commands,
           NEW c, Sent(conn, c, <<>>), ~c.mDone,
           NEW n \in Nat, written[cmd] + n <= MaxMessages, written' = Count(c, cmd, n),
           Sent(sendAll(c, cmd, n), conn', <<>>)
    PROVE  /\ PrintInv' /\ \A i \in Commands : i > cmd => written'[i] = 0
           /\ Same(c, sendAll(c, cmd, n))
<1> DEFINE d == sendAll(c, cmd, n)
           k == IF Sends(c) THEN n ELSE 0
<1>1. /\ Settled(c) /\ Commands \subseteq CommandNumbers /\ written \in [Commands -> 0..MaxMessages]
      /\ written[cmd] \in Nat /\ conn \in Conns
  BY SizesAssumption DEF Sent, IInv, TypeInv, SetupTypes, ServerTypes
<1>2. PICK x : /\ Whole(x) /\ Sent(c, d, x)
               /\ Answer(cmd, written[cmd] + k) = Answer(cmd, written[cmd]) \o Tagged(cmd, MessagesIn(x))
  BY <1>1, sendAllAnswers
<1>3. Same(c, d)
  BY <1>1, sendAllAnswers
<1>4. Sent(conn, conn', x)
  <2> HIDE DEF d
  <2>1. x \in Seq(ByteSet) /\ <<>> \in Seq(ByteSet) /\ <<>> \o x = x /\ x \o <<>> = x
    BY <1>2, EmptySeq, ConcatEmptySeq DEF Whole
  <2>2. Sent(conn, d, <<>> \o x)
    BY <1>1, <1>2, <2>1, SentBoth
  <2>3. Sent(conn, conn', (<<>> \o x) \o <<>>)
    BY <1>1, <2>1, <2>2, SentBoth DEF d
  <2> QED  BY <2>1, <2>3
<1>5. k \in Nat /\ written[cmd] + k <= MaxMessages
  BY <1>1, SizesAssumption
<1>6. written' = [written EXCEPT ![cmd] = @ + k]
  BY DEF Count
<1>7. UNCHANGED <<setup, cmd, reader, printed>>
  BY DEF rcVars
<1> HIDE DEF d, k
<1>8. PrintInv' /\ \A i \in Commands : i > cmd => written'[i] = 0
  BY <1>2, <1>4, <1>5, <1>6, <1>7, WritesAreAnswers
<1> QED  BY <1>3, <1>8 DEF d

\* What is left to show of a step of rdm.
LEMMA RdmStays ==
    ASSUME CalmInv, UNCHANGED <<setup, rcVars>>, ~Idle, PrintInv',
           \A i \in Commands : i > cmd => written'[i] = 0, ~Joined' => AtRest', ServedInv'
    PROVE  CalmInv'
<1>1. UNCHANGED <<pc, cmd, slots, mQuit, pipe, mConnection>>
  BY DEF rcVars
<1>2. Commands' = Commands
  BY SetupStays
<1>3. CountInv'
  BY <1>1, <1>2 DEF CalmInv, CountInv
<1>4. LoopInv' /\ ~Idle'
  BY <1>1, <1>2 DEF CalmInv, LoopInv, Idle
<1> QED  BY <1>3, <1>4 DEF CalmInv

\* The parts of ServedInv' from those of ServedInv.
LEMMA ServedNext ==
    ASSUME UNCHANGED <<setup, cmd>>, Lasts(Asks) => StreamInv', ~Lasts(Asks) /\ Joined' => AnswerInv'
    PROVE  ServedInv'
<1>1. Lasts(Asks)' = Lasts(Asks)
  BY SameCommand
<1> QED  BY <1>1 DEF ServedInv

\* Where rdm has something to do.
LEMMA WhoWorks ==
    ASSUME CalmInv, ~AtRest
    PROVE  ~Idle /\ cmd \in Commands /\ Joined /\ ServedInv
           /\ (Lasts(Asks) => StreamInv) /\ (~Lasts(Asks) => AnswerInv /\ (Waiting \/ Working))
  BY DEF CalmInv, RestInv, CountInv, LoopInv, ServedInv, AnswerInv

LEMMA SomeoneWorks ==
    ASSUME CalmInv, conn.lookups # {} \/ conn.loggers # {} \/ processes # {}
    PROVE  /\ ~Idle /\ cmd \in Commands /\ Joined /\ ServedInv /\ ~conn.mDone
           /\ Lasts(Asks) => StreamInv
           /\ ~Lasts(Asks) => ~conn.stream /\ Asks # "Shutdown" /\ Working
<1>1. ~AtRest /\ ~Waiting
  BY DEF AtRest, Waiting
<1> QED  BY <1>1, WhoWorks DEF StreamInv, AnswerInv, Working

LEMMA OutputIsCalm ==
    ASSUME IInv, IInv', CalmInv, NEW i \in Commands, JobOutput(i) \/ LogOutput(i)
    PROVE  CalmInv'
<1>1. /\ conn.lookups # {} \/ conn.loggers # {}
      /\ (\E j \in conn.lookups : j[1] = i) \/ i \in conn.loggers
      /\ serverUp /\ UNCHANGED <<setup, rcVars, serverUp, toServer, processes>>
      /\ conn' = send(conn, i, written[i] + 1) /\ written' = Count(conn, i, 1)
      /\ written[i] < MaxMessages
  BY DEF JobOutput, LogOutput
<1>2. /\ ~Idle /\ cmd \in Commands /\ Joined /\ ServedInv /\ ~conn.mDone
      /\ Lasts(Asks) => StreamInv
      /\ ~Lasts(Asks) => ~conn.stream /\ Asks # "Shutdown" /\ Working
  BY <1>1, SomeoneWorks
<1>3. i = cmd
  BY <1>1, <1>2 DEF StreamInv, Working
<1>4. Settled(conn) /\ Commands \subseteq CommandNumbers /\ written[i] \in Nat
  BY <1>1, SettledNow
<1>5. written[cmd] + 1 <= MaxMessages
  BY <1>1, <1>3, <1>4, SizesAssumption
<1>6. conn' = sendAll(conn, cmd, 1)
  BY <1>1, <1>2, <1>3, <1>4, <1>5, OneSend
<1>7. Sent(conn, conn, <<>>) /\ Sent(conn', conn', <<>>)
  <2>1. /\ Commands \subseteq CommandNumbers /\ written[cmd] \in Nat /\ 1 \in Nat
    BY <1>3, <1>4
  <2>2. PICK x : Sent(conn, sendAll(conn, cmd, 1), x)
    BY <1>2, <1>4, <1>5, <2>1, sendAllAnswers
  <2>3. Settled(conn')
    BY <1>6, <2>2 DEF Sent
  <2> QED  BY <1>4, <2>3, LeftIsSeq DEF Sent, Settled
<1>8. /\ PrintInv' /\ \A k \in Commands : k > cmd => written'[k] = 0
      /\ Same(conn, conn')
  <2>1. 1 \in Nat
    OBVIOUS
  <2> QED  BY <1>1, <1>2, <1>3, <1>5, <1>6, <1>7, <2>1, HandlerWrites
<1>9. UNCHANGED <<cmd, mConnection, toServer, processes>> /\ Asks' = Asks
  BY <1>1, SameCommand DEF rcVars
<1>10. Joined' /\ ServedInv'
  <2>1. Joined'
    BY <1>2, <1>8 DEF Joined, Same
  <2>2. Lasts(Asks) => StreamInv'
    BY <1>2, <1>8, <1>9, <2>1 DEF StreamInv, Same
  <2>3. ~Lasts(Asks) => AnswerInv'
    BY <1>2, <1>8, <1>9 DEF AnswerInv, Working, Same
  <2> QED  BY <1>1, <1>9, <2>1, <2>2, <2>3, ServedNext
<1> QED  BY <1>1, <1>2, <1>8, <1>10, RdmStays

\* The same for the last output.
LEMMA JobEndIsCalm ==
    ASSUME IInv, IInv', CalmInv, NEW j \in conn.lookups, JobEnd(j)
    PROVE  CalmInv'
<1> DEFINE c == [conn EXCEPT !.lookups = @ \ {j}]
<1>1. /\ ~Idle /\ cmd \in Commands /\ Joined /\ ServedInv /\ ~conn.mDone
      /\ Lasts(Asks) => StreamInv
      /\ ~Lasts(Asks) => ~conn.stream /\ Asks # "Shutdown" /\ Working
  BY SomeoneWorks
<1>2. j[1] = cmd
  BY <1>1 DEF StreamInv, Working
<1>3. PICK n \in {0, 1} :
        /\ written[cmd] + n <= MaxMessages
        /\ conn' = FinishUnlessStream(sendAll(c, cmd, n))
        /\ written' = Count(conn, cmd, n)
  BY <1>2 DEF JobEnd
<1>4. /\ serverUp /\ UNCHANGED <<setup, rcVars, serverUp, processes>>
      /\ toServer' = IF conn'.link = "closed" THEN <<>> ELSE toServer
      /\ UNCHANGED <<cmd, mConnection>>
  BY DEF JobEnd, rcVars
<1>5. Settled(conn) /\ conn \in Conns
  BY <1>4, SettledNow DEF Settled
<1>6. /\ c \in Conns /\ c.no = conn.no /\ c.link = conn.link /\ c.wire = conn.wire
      /\ c.unsent = conn.unsent /\ c.mPendingWrite = conn.mPendingWrite
      /\ c.mDone = conn.mDone /\ c.mSilent = conn.mSilent /\ c.stream = conn.stream
      /\ c.lookups = conn.lookups \ {j} /\ c.loggers = conn.loggers
  BY <1>5 DEF Conns
<1> HIDE DEF c
<1> DEFINE d == sendAll(c, cmd, n)
<1>7. Sent(conn, c, <<>>)
  BY <1>5, <1>6, Unsettled
<1>8. written' = Count(c, cmd, n) /\ n \in Nat
  BY <1>3, <1>6 DEF Count, Sends
<1>9. Same(c, d) /\ Settled(d)
  <2>1. /\ Settled(c) /\ ~c.mDone /\ Commands \subseteq CommandNumbers /\ written[cmd] \in Nat
    BY <1>1, <1>4, <1>6, <1>7, SettledNow DEF Sent
  <2>2. Same(c, d) /\ \E x : Sent(c, d, x)
    <3> HIDE DEF d
    <3> QED  BY <1>1, <1>3, <1>8, <2>1, sendAllAnswers DEF d
  <2> QED  BY <2>2 DEF Sent
<1> HIDE DEF d
<1>10. conn' = FinishUnlessStream(d)
  BY <1>3 DEF d
<1>11. Sent(d, conn', <<>>)
  BY <1>9, <1>10, finishSends
<1>12. PrintInv' /\ \A k \in Commands : k > cmd => written'[k] = 0
  BY <1>1, <1>3, <1>4, <1>6, <1>7, <1>8, <1>11, HandlerWrites DEF d
<1>13. CASE Lasts(Asks)
  <2>1. conn.stream /\ d.stream
    BY <1>1, <1>6, <1>9, <1>13 DEF StreamInv, Same
  <2>2. conn' = d
    BY <1>10, <2>1 DEF FinishUnlessStream
  <2>3. Joined' /\ toServer' = toServer
    BY <1>1, <1>4, <1>6, <1>9, <2>2 DEF Joined, Same
  <2>4. StreamInv'
    BY <1>1, <1>4, <1>6, <1>9, <1>13, <2>1, <2>2, <2>3, SameCommand DEF StreamInv, Same
  <2>5. ServedInv'
    BY <1>4, <1>13, <2>4, ServedNext
  <2> QED  BY <1>1, <1>4, <1>12, <2>3, <2>5, RdmStays
<1>14. CASE ~Lasts(Asks)
  <2>1. conn' = finish(d) /\ d \in Conns /\ ~d.stream
    BY <1>1, <1>6, <1>9, <1>10, <1>14 DEF FinishUnlessStream, Same, Settled
  <2>2. d.lookups = {} /\ d.loggers = {} /\ processes = {} /\ toServer = <<>>
    BY <1>1, <1>6, <1>9, <1>14 DEF Working, Same
  <2>3. AtRest' /\ ~conn'.stream
    BY <1>4, <2>1, <2>2, FinishIs DEF AtRest
  <2>4. AnswerInv'
    BY <1>1, <1>4, <1>14, <2>3, SameCommand DEF AnswerInv
  <2>5. ServedInv'
    BY <1>4, <1>14, <2>4, ServedNext
  <2> QED  BY <1>1, <1>4, <1>12, <2>3, <2>5, RdmStays
<1> QED  BY <1>13, <1>14

\* A step that leaves rdm's work, and where rc is between or in its loop, alone.
SameConn ==
    /\ conn'.no = conn.no /\ conn'.mDone = conn.mDone /\ conn'.lookups = conn.lookups
    /\ conn'.loggers = conn.loggers /\ conn'.stream = conn.stream
    /\ Joined' = Joined /\ (Untouched => Untouched')

LEMMA SameWork ==
    ASSUME CalmInv, UNCHANGED <<setup, cmd, written, toServer, processes>>, SameConn
    PROVE  /\ Due' = Due /\ CountInv' /\ AtRest' = AtRest /\ Joined' = Joined
           /\ (mConnection /\ Joined => mConnection') /\ ServedInv => ServedInv'
<1>1. /\ Asks' = Asks /\ Commands' = Commands /\ Asked(0)' = Asked(0) /\ Lasts(Asks)' = Lasts(Asks)
  BY SameCommand
<1>2. AtRest' = AtRest /\ Joined' = Joined /\ Due' = Due
  BY <1>1 DEF AtRest, SameConn, Due
<1>3. CountInv'
  BY <1>1, <1>2 DEF CalmInv, CountInv
<1>4. ASSUME mConnection /\ Joined => mConnection', ServedInv PROVE ServedInv'
  <2>1. StreamInv => StreamInv'
    BY <1>1, <1>2, <1>4 DEF StreamInv, SameConn
  <2>2. AnswerInv => AnswerInv'
    <3>1. Waiting => Waiting'
      BY <1>1 DEF Waiting, SameConn
    <3>2. Working => Working'
      BY DEF Working, SameConn
    <3>3. conn'.stream = conn.stream
      BY DEF SameConn
    <3> QED  BY <1>1, <1>2, <3>1, <3>2, <3>3 DEF AnswerInv
  <2> QED  BY <1>1, <1>2, <1>4, <2>1, <2>2 DEF ServedInv
<1> QED  BY <1>2, <1>3, <1>4

LEMMA RestGoesOn ==
    ASSUME CalmInv, UNCHANGED <<setup, cmd, slots, mConnection, written, toServer, processes>>,
           SameConn, PrintInv', Idle, Idle', "q" \notin pipe', InFlight' = InFlight,
           pc' = "start" => pc = "start"
    PROVE  CalmInv'
<1>1. Due' = Due /\ CountInv' /\ AtRest' = AtRest /\ Joined' = Joined
  BY SameWork
<1>2. RestInv'
  BY <1>1 DEF CalmInv, RestInv, SameConn
<1> QED  BY <1>1, <1>2 DEF CalmInv

LEMMA LoopGoesOn ==
    ASSUME CalmInv, UNCHANGED <<setup, cmd, slots, written, toServer, processes>>,
           SameConn, PrintInv', ~Idle, ~Idle', mConnection /\ Joined => mConnection',
           "q" \in pipe' \/ mQuit' => ~mConnection', mQuit' => "q" \notin pipe'
    PROVE  CalmInv'
<1>1. LoopInv /\ ServedInv
  BY DEF CalmInv
<1>2. CountInv' /\ ServedInv'
  BY <1>1, SameWork
<1>3. LoopInv'
  BY <1>1, SetupStays DEF LoopInv
<1> QED  BY <1>2, <1>3 DEF CalmInv

LEMMA AcceptIsCalm ==
    ASSUME IInv, CalmInv, Accept
    PROVE  CalmInv'
<1>1. /\ UNCHANGED <<setup, rcVars, toServer, written, processes>> /\ conn.link = "backlog"
      /\ conn' = [conn EXCEPT !.link = "open"] /\ conn \in Conns
  BY DEF Accept, IInv, TypeInv, ServerTypes
<1>2. /\ conn'.link = "open" /\ conn'.no = conn.no /\ conn'.wire = conn.wire
      /\ conn'.unsent = conn.unsent /\ conn'.mDone = conn.mDone /\ conn'.lookups = conn.lookups
      /\ conn'.loggers = conn.loggers /\ conn'.stream = conn.stream
  BY <1>1 DEF Conns
<1>3. SameConn
  BY <1>1, <1>2 DEF SameConn, Joined, Untouched
<1>4. UNCHANGED <<pc, cmd, mConnection, slots, pipe, mQuit, printed>>
  BY <1>1 DEF rcVars
<1>5. InFlight' = InFlight
  BY AcceptKeeps
<1>6. PrintInv'
  BY <1>1, <1>4, <1>5, PrintStays DEF CalmInv
<1>7. Idle' = Idle
  BY <1>4 DEF Idle
<1>8. CASE Idle
  <2>1. "q" \notin pipe
    BY <1>8 DEF CalmInv, RestInv
  <2> QED  BY <1>1, <1>3, <1>4, <1>5, <1>6, <1>7, <1>8, <2>1, RestGoesOn
<1>9. CASE ~Idle
  <2>1. LoopInv
    BY <1>9 DEF CalmInv
  <2> QED  BY <1>1, <1>3, <1>4, <1>6, <1>7, <1>9, <2>1, LoopGoesOn DEF LoopInv
<1> QED  BY <1>8, <1>9

\* The socket takes bytes that were written; the answer may be complete.
LEMMA WriteMoreIsCalm ==
    ASSUME IInv, IInv', CalmInv, WriteMore
    PROVE  CalmInv'
<1>1. /\ serverUp /\ conn.link = "open" /\ conn.unsent # <<>> /\ conn' = writeMore(conn)
      /\ toServer' = (IF conn'.link = "closed" THEN <<>> ELSE toServer)
      /\ UNCHANGED <<setup, rcVars, serverUp, written, processes>>
  BY DEF WriteMore
<1>2. /\ conn \in Conns /\ Books(conn) /\ UNCHANGED <<cmd, reader, printed, mConnection>>
  BY <1>1 DEF IInv, TypeInv, ServerTypes, BooksInv, rcVars
<1>3. Sent(conn, conn', <<>>)
  BY <1>1, <1>2, writeMoreSends
<1>4. PrintInv'
  <2>1. <<>> \in Seq(ByteSet) /\ MessagesIn(<<>>) = <<>>
    <3>1. <<>> \in Seq(ByteSet) /\ \A k \in 1..Len(<<>>) : FALSE
      BY EmptySeq
    <3> QED  BY <3>1, NoMessages
  <2>2. InFlight' = InFlight \o <<>>
    BY <1>1, <1>2, <1>3, <2>1, StreamGrows
  <2>3. InFlight \in Seq(Messages)
    BY StreamNow DEF IInv
  <2>4. InFlight' = InFlight
    BY <2>2, <2>3, ConcatEmptySeq
  <2> QED  BY <1>1, <1>2, <2>4, PrintStays DEF CalmInv
<1>5. ~Idle /\ cmd \in Commands /\ Joined /\ ~Waiting
  <2>1. mConnection
    BY <1>1 DEF IInv, RcInv
  <2>2. ~Untouched
    BY <1>1 DEF Untouched
  <2> QED  BY <1>1, <2>1, <2>2 DEF CalmInv, RestInv, LoopInv, Joined, Waiting
<1>6. \A i \in Commands : i > cmd => written'[i] = 0
  BY <1>1 DEF CalmInv, CountInv
<1>7. CASE conn.mDone
  <2>1. ~Lasts(Asks) /\ ~conn.stream /\ Asks # "Shutdown" /\ AtRest
    BY <1>5, <1>7 DEF CalmInv, ServedInv, StreamInv, AnswerInv, Working
  <2>2. AtRest' /\ ~conn'.stream
    BY <1>1, <1>2, <2>1, writeMoreIs DEF AtRest
  <2>3. AnswerInv'
    BY <1>1, <1>2, <2>1, <2>2, SameCommand DEF AnswerInv
  <2>4. ServedInv'
    BY <1>1, <1>2, <2>1, <2>3, ServedNext
  <2> QED  BY <1>1, <1>4, <1>5, <1>6, <2>2, <2>4, RdmStays
<1>8. CASE ~conn.mDone
  <2>1. Same(conn, conn')
    BY <1>1, <1>2, <1>8, writeMoreSame
  <2>2. Joined' /\ toServer' = toServer
    BY <1>1, <2>1 DEF Joined, Same
  <2>3. Lasts(Asks) => StreamInv'
    <3>1. Lasts(Asks) => StreamInv
      BY <1>5 DEF CalmInv, ServedInv
    <3> QED  BY <1>1, <1>2, <2>1, <2>2, <3>1, SameCommand DEF StreamInv, Same
  <2>4. ~Lasts(Asks) => AnswerInv'
    <3>1. ~Lasts(Asks) => ~conn.stream /\ Asks # "Shutdown" /\ (Working \/ AtRest)
      BY <1>5 DEF CalmInv, ServedInv, AnswerInv
    <3>2. Working => Working'
      BY <1>1, <1>2, <2>1, <2>2 DEF Working, Same
    <3>3. AtRest => AtRest'
      BY <1>1, <2>1, <2>2 DEF AtRest, Same
    <3> QED  BY <1>1, <1>2, <2>1, <3>1, <3>2, <3>3, SameCommand DEF AnswerInv, Same
  <2>5. ServedInv'
    BY <1>1, <1>2, <2>3, <2>4, ServedNext
  <2> QED  BY <1>1, <1>4, <1>5, <1>6, <2>2, <2>5, RdmStays
<1> QED  BY <1>7, <1>8

\* The end of a preprocessor finishes the answer.
LEMMA ProcessEndIsCalm ==
    ASSUME IInv, IInv', CalmInv, ProcessEnd
    PROVE  CalmInv'
<1>1. PICK p \in processes, n \in {2, 3} :
        /\ serverUp /\ written[p[1]] + n <= MaxMessages
        /\ processes' = processes \ {p}
        /\ conn' = finish(sendAll(conn, p[1], n))
        /\ written' = Count(conn, p[1], n)
        /\ toServer' = (IF conn'.link = "closed" THEN <<>> ELSE toServer)
        /\ UNCHANGED <<setup, rcVars, serverUp>>
  BY DEF ProcessEnd
<1>2. /\ ~Idle /\ cmd \in Commands /\ Joined /\ ServedInv /\ ~conn.mDone
      /\ ~Lasts(Asks) /\ ~conn.stream /\ Asks # "Shutdown" /\ Working
  BY <1>1, SomeoneWorks DEF StreamInv
<1>3. /\ processes = {p} /\ p[1] = cmd /\ toServer = <<>> /\ conn.lookups = {} /\ conn.loggers = {}
  BY <1>1, <1>2 DEF Working
<1>4. /\ n \in Nat /\ written[cmd] + n <= MaxMessages /\ written' = Count(conn, cmd, n)
      /\ UNCHANGED cmd /\ conn' = finish(sendAll(conn, cmd, n))
  BY <1>1, <1>3 DEF rcVars
<1> DEFINE d == sendAll(conn, cmd, n)
<1>5. Settled(conn) /\ conn \in Conns /\ Commands \subseteq CommandNumbers /\ written[cmd] \in Nat
  BY <1>1, <1>2, SettledNow DEF Settled
<1>6. Sent(conn, conn, <<>>)
  BY <1>5, Unsettled
<1>7. Same(conn, d) /\ Settled(d)
  <2>1. Same(conn, d) /\ \E x : Sent(conn, d, x)
    <3> HIDE DEF d
    <3> QED  BY <1>2, <1>4, <1>5, sendAllAnswers DEF d
  <2> QED  BY <2>1 DEF Sent
<1> HIDE DEF d
<1>8. conn' = finish(d)
  BY <1>4 DEF d
<1>9. Sent(d, conn', <<>>)
  BY <1>7, <1>8, finishSends
<1>10. PrintInv' /\ \A k \in Commands : k > cmd => written'[k] = 0
  BY <1>1, <1>2, <1>4, <1>6, <1>9, HandlerWrites DEF d
<1>11. AtRest' /\ ~conn'.stream
  <2>1. d \in Conns /\ d.lookups = {} /\ d.loggers = {} /\ ~d.stream
    BY <1>2, <1>3, <1>7 DEF Same, Settled
  <2>2. conn'.lookups = {} /\ conn'.loggers = {} /\ ~conn'.stream
    BY <1>8, <2>1, FinishIs
  <2> QED  BY <1>1, <1>3, <2>2 DEF AtRest
<1>12. AnswerInv'
  BY <1>1, <1>2, <1>4, <1>11, SameCommand DEF AnswerInv
<1>13. ServedInv'
  BY <1>1, <1>2, <1>4, <1>12, ServedNext
<1> QED  BY <1>1, <1>2, <1>10, <1>11, <1>13, RdmStays

\* A preprocessor's connection is there as long as nothing was cut short.
LEMMA NothingDangles ==
    ASSUME CalmInv, ProcessEndDangling
    PROVE  FALSE
<1>1. PICK p \in processes : p[2] # conn.no \/ conn.link = "closed"
  BY DEF ProcessEndDangling
<1>2. Joined /\ ~Lasts(Asks) /\ Working
  BY <1>1, SomeoneWorks DEF StreamInv
<1>3. p[2] = conn.no /\ conn.link # "closed"
  BY <1>1, <1>2 DEF Working, Joined
<1> QED  BY <1>1, <1>3

\* What becomes of the connection d behind a query.
LEMMA EndedIs ==
    ASSUME NEW d, Settled(d), NEW m, m.type # "Shutdown", m.cmd \in Commands, m.nr \in Int, NEW then
    PROVE  LET e == Ended(m, then, d)
           IN /\ Sent(d, e, <<>>)
              /\ then = "finish" => e = FinishUnlessStream(d)
              /\ then # "finish" => /\ e.no = d.no /\ e.link = d.link /\ e.mDone = d.mDone
                                    /\ e.stream = (d.stream \/ then = "stream")
                                    /\ e.lookups = d.lookups \cup (IF then = "job" THEN {<<m.cmd, m.nr>>} ELSE {})
                                    /\ e.loggers = d.loggers \cup (IF then = "log" THEN {m.cmd} ELSE {})
<1> DEFINE jobs == d.lookups \cup {<<m.cmd, m.nr>>}
           logs == d.loggers \cup {m.cmd}
           e == Ended(m, then, d)
<1>1. d \in Conns /\ jobs \in SUBSET (Commands \X Int) /\ logs \in SUBSET Commands
  BY DEF Settled, Conns
<1>2. /\ then = "finish" => e = FinishUnlessStream(d)
      /\ then = "job" => e = [d EXCEPT !.lookups = jobs]
      /\ then = "log" => e = [d EXCEPT !.loggers = logs]
      /\ then = "stream" => e = [d EXCEPT !.stream = TRUE]
      /\ then \notin {"finish", "job", "log", "stream"} => e = d
  BY DEF Ended
<1> HIDE DEF e
<1>3. CASE then = "finish"
  BY <1>2, <1>3, finishSends DEF e
<1>4. CASE then # "finish"
  <2>1. /\ e \in Conns /\ e.no = d.no /\ e.link = d.link /\ e.mDone = d.mDone
        /\ e.wire = d.wire /\ e.unsent = d.unsent /\ e.mPendingWrite = d.mPendingWrite
        /\ e.stream = (d.stream \/ then = "stream")
        /\ then = "job" => e.lookups = jobs
        /\ then # "job" => e.lookups = d.lookups
        /\ then = "log" => e.loggers = logs
        /\ then # "log" => e.loggers = d.loggers
    <3> HIDE DEF jobs, logs
    <3>1. CASE then = "job"
      BY <1>1, <1>2, <3>1 DEF Conns
    <3>2. CASE then = "log"
      BY <1>1, <1>2, <3>2 DEF Conns
    <3>3. CASE then = "stream"
      BY <1>1, <1>2, <3>3 DEF Conns
    <3>4. CASE then \notin {"finish", "job", "log", "stream"}
      BY <1>1, <1>2, <3>4 DEF Conns
    <3> QED  BY <1>4, <3>1, <3>2, <3>3, <3>4
  <2>2. Sent(d, e, <<>>)
    BY <2>1, Unsettled
  <2> QED  BY <1>4, <2>1, <2>2 DEF e
<1> QED  BY <1>3, <1>4

\* rdm's answer to "--quit-rdm" is in the socket before it goes down.
LEMMA GoesDownSends ==
    ASSUME NEW d, Settled(d), d.unsent = <<>>
    PROVE  /\ Sent(d, Disconnect(d), <<>>) /\ Disconnect(d).link = "closed"
           /\ Disconnect(d).lookups = {} /\ Disconnect(d).loggers = {}
<1> DEFINE e == Disconnect(d)
<1>1. d \in Conns /\ d.wire \in Seq(ByteSet) /\ <<>> \in Seq(ByteSet)
  BY EmptySeq DEF Settled, Conns
<1>2. /\ e \in Conns /\ e.link = "closed" /\ e.no = d.no /\ e.wire = d.wire /\ e.unsent = d.unsent
      /\ e.mPendingWrite = d.mPendingWrite /\ e.lookups = {} /\ e.loggers = {}
  BY <1>1 DEF Disconnect, Conns, Links
<1> HIDE DEF e
<1>3. Settled(e) /\ Left(e) = Left(d) /\ Left(d) \o <<>> = Left(d)
  BY <1>1, <1>2, LeftIsSeq DEF Settled, Books, Left
<1> QED  BY <1>2, <1>3 DEF Sent, e

\* Before a handler rdm has nothing else to do, except for a completion stream.
LEMMA HandlesAsked ==
    ASSUME IInv, CalmInv, toServer # <<>>
    PROVE  LET m == Head(toServer)
           IN /\ ~Idle /\ cmd \in Commands /\ Joined /\ ~conn.mDone /\ m.cmd = cmd
              /\ Lasts(Asks) => /\ StreamInv /\ m.type \in {Asks, "Completion"}
                                /\ conn.stream \/ m.type = Asks
              /\ ~Lasts(Asks) => ~conn.stream /\ Waiting /\ m = Asked(0) /\ m.type = Asks
<1> DEFINE m == Head(toServer)
<1>1. toServer \in Seq(Queries)
  BY DEF IInv, TypeInv, ServerTypes
<1>2. ~AtRest /\ ~Working
  BY DEF AtRest, Working
<1>3. ~Idle /\ cmd \in Commands /\ Joined /\ (Lasts(Asks) => StreamInv)
      /\ (~Lasts(Asks) => AnswerInv /\ Waiting)
  BY <1>2, WhoWorks
<1>4. 1 \in 1..Len(toServer) /\ m = toServer[1]
  <2>1. Len(toServer) \in Nat /\ Len(toServer) # 0
    BY <1>1, EmptySeq, LenProperties
  <2> QED  BY <1>1, <2>1
<1>5. CASE Lasts(Asks)
  BY <1>3, <1>4, <1>5 DEF StreamInv
<1>6. CASE ~Lasts(Asks)
  <2>1. m = Asked(0)
    BY <1>3, <1>4, <1>6 DEF Waiting
  <2>2. Asked(0).cmd = cmd /\ Asked(0).type = Asks
    BY DEF Asked, Asks
  <2> HIDE DEF m
  <2> QED  BY <1>3, <1>6, <2>1, <2>2 DEF AnswerInv, Waiting, Untouched
<1> QED  BY <1>5, <1>6

LEMMA HandleIsCalm ==
    ASSUME IInv, IInv', CalmInv, Handle
    PROVE  CalmInv'
<1> DEFINE m == Head(toServer)
           i == m.cmd
           c == IF IsQuery(i) THEN [conn EXCEPT !.mSilent = setup.mCommands[i].silent] ELSE conn
<1>1. /\ serverUp /\ conn.link = "open" /\ toServer # <<>> /\ UNCHANGED <<setup, rcVars>>
      /\ UNCHANGED <<cmd, mConnection>>
  BY DEF Handle, rcVars
<1>2. /\ Settled(conn) /\ conn \in Conns /\ setup \in Setups /\ toServer \in Seq(Queries)
      /\ Commands \subseteq CommandNumbers /\ \A k \in Commands : written[k] \in Nat
  BY <1>1, SettledNow DEF IInv, TypeInv, ServerTypes, SetupTypes
<1>3. /\ ~Idle /\ cmd \in Commands /\ Joined /\ ~conn.mDone /\ i = cmd /\ m.cmd = cmd /\ m.nr \in Int
      /\ Lasts(Asks) => StreamInv /\ m.type \in {Asks, "Completion"} /\ (conn.stream \/ m.type = Asks)
      /\ ~Lasts(Asks) => ~conn.stream /\ Waiting /\ m = Asked(0) /\ m.type = Asks
  <2>1. m \in Queries
    BY <1>1, <1>2, HeadTailProperties
  <2> QED  BY <1>1, <2>1, HandlesAsked DEF Queries
<1>4. PICK o \in Outcomes(m.type) :
        /\ written[i] + o.writes <= MaxMessages
        /\ written' = Count(c, i, o.writes)
        /\ conn' = Ended(m, o.then, sendAll(c, i, o.writes))
        /\ processes' = IF m.type = "Shutdown" THEN {}
                        ELSE processes \cup (IF o.then = "process" THEN {<<i, conn.no>>} ELSE {})
        /\ serverUp' = (m.type # "Shutdown")
        /\ toServer' = IF conn'.link = "closed" THEN <<>> ELSE Tail(toServer)
  BY DEF Handle
<1>5. /\ c \in Conns /\ c.no = conn.no /\ c.link = conn.link /\ c.wire = conn.wire
      /\ c.unsent = conn.unsent /\ c.mPendingWrite = conn.mPendingWrite /\ c.mDone = conn.mDone
      /\ c.stream = conn.stream /\ c.lookups = conn.lookups /\ c.loggers = conn.loggers
  <2>1. setup.mCommands[i].silent \in BOOLEAN
    <3>1. setup.mCommands \in Seq(OptionSet) /\ i \in DOMAIN setup.mCommands
      BY <1>2, <1>3 DEF Setups, Commands
    <3>2. setup.mCommands[i] \in OptionSet
      BY <3>1, LenProperties
    <3> QED  BY <3>2 DEF OptionSet
  <2> QED  BY <1>2, <2>1 DEF Conns
<1> HIDE DEF c
<1>6. Sent(conn, c, <<>>) /\ Settled(c) /\ ~c.mDone
  BY <1>2, <1>3, <1>5, Unsettled DEF Sent
<1> DEFINE n == o.writes
           d == sendAll(c, cmd, n)
<1>7. /\ n \in Nat /\ (m.type = "Shutdown" => n = 1) /\ written[cmd] + n <= MaxMessages
      /\ written' = Count(c, cmd, n) /\ conn' = Ended(m, o.then, d)
  BY <1>3, <1>4, HandlersWrite
<1>8. /\ o.then \in {"finish", "job", "log", "process", "stream", "nothing"}
      /\ o.then = "stream" <=> Lasts(m.type)
      /\ m.type = "Completion" => o.then \in {"finish", "job", "nothing"}
      /\ m.type = "Shutdown" => ~Lasts(m.type)
  BY OutcomesAre
<1>9. Same(c, d) /\ Settled(d)
  <2>1. Same(c, d) /\ \E x : Sent(c, d, x)
    <3> HIDE DEF d, n
    <3> QED  BY <1>2, <1>3, <1>6, <1>7, sendAllAnswers DEF d
  <2> QED  BY <2>1 DEF Sent
<1>10. /\ d.no = conn.no /\ d.link = "open" /\ ~d.mDone /\ d.stream = conn.stream
       /\ d.lookups = conn.lookups /\ d.loggers = conn.loggers /\ d \in Conns
  BY <1>1, <1>3, <1>5, <1>9 DEF Same, Settled
<1> HIDE DEF d, n
<1>11. Sent(d, conn', <<>>) =>
            PrintInv' /\ \A k \in Commands : k > cmd => written'[k] = 0
  BY <1>1, <1>3, <1>6, <1>7, HandlerWrites DEF d
<1>12. m.type # "Shutdown" =>
          /\ Sent(d, conn', <<>>)
          /\ o.then = "finish" => conn' = FinishUnlessStream(d)
          /\ o.then # "finish" =>
                /\ conn'.no = d.no /\ conn'.link = d.link /\ conn'.mDone = d.mDone
                /\ conn'.stream = (d.stream \/ o.then = "stream")
                /\ conn'.lookups = d.lookups \cup (IF o.then = "job" THEN {<<cmd, m.nr>>} ELSE {})
                /\ conn'.loggers = d.loggers \cup (IF o.then = "log" THEN {cmd} ELSE {})
  <2> SUFFICES ASSUME m.type # "Shutdown"
               PROVE  LET e == Ended(m, o.then, d)
                      IN /\ Sent(d, e, <<>>)
                         /\ o.then = "finish" => e = FinishUnlessStream(d)
                         /\ o.then # "finish" =>
                               /\ e.no = d.no /\ e.link = d.link /\ e.mDone = d.mDone
                               /\ e.stream = (d.stream \/ o.then = "stream")
                               /\ e.lookups = d.lookups \cup (IF o.then = "job" THEN {<<m.cmd, m.nr>>} ELSE {})
                               /\ e.loggers = d.loggers \cup (IF o.then = "log" THEN {m.cmd} ELSE {})
    BY <1>3, <1>7
  <2>1. m.cmd \in Commands /\ m.nr \in Int
    BY <1>3
  <2> HIDE DEF m
  <2> QED  BY <1>9, <2>1, EndedIs
<1>13. CASE Lasts(Asks)
  <2>1. /\ StreamInv /\ m.type # "Shutdown" /\ o.then \in {"finish", "job", "stream", "nothing"}
        /\ o.then # "stream" => conn.stream
    BY <1>3, <1>8, <1>13
  <2>2. /\ Sent(d, conn', <<>>) /\ conn'.no = d.no /\ conn'.link = d.link /\ conn'.mDone = d.mDone
        /\ conn'.stream
        /\ conn'.lookups = d.lookups \cup (IF o.then = "job" THEN {<<cmd, m.nr>>} ELSE {})
        /\ conn'.loggers = d.loggers
    <3>1. CASE o.then = "finish"
      <4>1. conn' = FinishUnlessStream(d) /\ Sent(d, conn', <<>>)
        BY <1>12, <2>1, <3>1
      <4>2. conn' = d
        BY <1>10, <2>1, <3>1, <4>1 DEF FinishUnlessStream
      <4> QED  BY <1>10, <2>1, <3>1, <4>1, <4>2
    <3>2. CASE o.then # "finish"
      <4> HIDE DEF m
      <4>1. o.then # "log" /\ (d.stream \/ o.then = "stream") /\ d.loggers \cup {} = d.loggers
        BY <1>10, <2>1
      <4> QED  BY <1>12, <2>1, <3>2, <4>1
    <3> QED  BY <3>1, <3>2
  <2>3. Joined' /\ processes' = {} /\ toServer' = Tail(toServer)
    BY <1>4, <1>10, <2>1, <2>2 DEF Joined, StreamInv
  <2>4. \A k \in 1..Len(toServer') : toServer'[k].cmd = cmd /\ toServer'[k].type \in {Asks, "Completion"}
    <3>1. /\ Len(Tail(toServer)) = Len(toServer) - 1 /\ Len(toServer) \in Nat
          /\ \A k \in 1..Len(Tail(toServer)) : Tail(toServer)[k] = toServer[k + 1] /\ k + 1 \in 1..Len(toServer)
      BY <1>1, <1>2, HeadTailProperties, LenProperties
    <3> QED  BY <2>1, <2>3, <3>1 DEF StreamInv
  <2>5. StreamInv'
    BY <1>1, <1>3, <1>10, <2>1, <2>2, <2>3, <2>4, SameCommand DEF StreamInv
  <2>6. ServedInv'
    BY <1>1, <1>13, <2>5, ServedNext
  <2> QED  BY <1>1, <1>3, <1>11, <2>2, <2>3, <2>6, RdmStays
<1>14. CASE ~Lasts(Asks)
  <2>1. /\ ~conn.stream /\ Waiting /\ m.type = Asks /\ o.then # "stream" /\ processes = {}
        /\ conn.lookups = {} /\ conn.loggers = {} /\ Untouched /\ written[cmd] = 0
        /\ Tail(toServer) = <<>>
    <3>1. ~conn.stream /\ Waiting /\ m.type = Asks /\ o.then # "stream"
      BY <1>3, <1>8, <1>14
    <3>2. Tail(toServer) = <<>>
      <4>1. Len(toServer) = 1 /\ Tail(toServer) \in Seq(Queries)
        BY <1>1, <1>2, <3>1, HeadTailProperties DEF Waiting
      <4>2. Len(Tail(toServer)) = Len(toServer) - 1
        BY <1>1, <1>2, HeadTailProperties
      <4>3. Len(Tail(toServer)) = 0
        BY <4>1, <4>2
      <4> QED  BY <4>1, <4>3, EmptySeq
    <3> HIDE DEF m
    <3> QED  BY <3>1, <3>2 DEF Waiting
  <2>2. CASE m.type = "Shutdown"
    <3>1. conn' = Disconnect(d)
      BY <1>7, <2>2 DEF Ended
    <3>2. d.unsent = <<>>
      <4>1. n = 1 /\ 1 <= MaxMessages /\ c.wire = <<>> /\ c.unsent = <<>>
        BY <1>5, <1>7, <2>1, <2>2 DEF Untouched
      <4> QED  BY <1>2, <1>3, <1>6, <2>1, <4>1, AnswerFits DEF d
    <3>3. Sent(d, conn', <<>>) /\ conn'.link = "closed" /\ conn'.lookups = {} /\ conn'.loggers = {}
      BY <1>9, <3>1, <3>2, GoesDownSends
    <3>4. AtRest' /\ ~Joined'
      BY <1>4, <2>2, <3>3 DEF AtRest, Joined
    <3>5. ServedInv'
      BY <1>1, <1>14, <3>4, ServedNext
    <3> QED  BY <1>1, <1>3, <1>11, <3>3, <3>4, <3>5, RdmStays
  <2>3. CASE m.type # "Shutdown"
    <3>1. Sent(d, conn', <<>>) /\ toServer' = <<>> /\ Asks # "Shutdown"
          /\ processes' = (IF o.then = "process" THEN {<<cmd, conn.no>>} ELSE {})
      BY <1>4, <1>12, <1>3, <2>1, <2>3
    <3>2. CASE o.then = "finish"
      <4>1. conn' = finish(d)
        BY <1>10, <1>12, <2>1, <2>3, <3>2 DEF FinishUnlessStream
      <4>2. AtRest' /\ ~conn'.stream
        BY <1>10, <2>1, <3>1, <3>2, <4>1, FinishIs DEF AtRest
      <4>3. AnswerInv'
        BY <1>1, <3>1, <4>2, SameCommand DEF AnswerInv
      <4>4. ServedInv'
        BY <1>1, <1>14, <4>3, ServedNext
      <4> QED  BY <1>1, <1>3, <1>11, <3>1, <4>2, <4>4, RdmStays
    <3>3. CASE o.then # "finish"
      <4>1. /\ conn'.no = conn.no /\ conn'.link = "open" /\ ~conn'.mDone /\ ~conn'.stream
            /\ conn'.lookups = (IF o.then = "job" THEN {<<cmd, m.nr>>} ELSE {})
            /\ conn'.loggers = (IF o.then = "log" THEN {cmd} ELSE {})
        <5> HIDE DEF m
        <5> QED  BY <1>10, <1>12, <2>1, <2>3, <3>3
      <4>2. m.nr = 0
        BY <1>3, <1>14 DEF Asked
      <4>3. Working' \/ AtRest'
        BY <1>1, <1>8, <3>1, <4>1, <4>2 DEF Working, AtRest
      <4>4. AnswerInv'
        BY <1>1, <3>1, <4>1, <4>3, SameCommand DEF AnswerInv
      <4>5. ServedInv'
        BY <1>1, <1>14, <4>4, ServedNext
      <4>6. Joined'
        BY <4>1 DEF Joined
      <4> QED  BY <1>1, <1>3, <1>11, <3>1, <4>5, <4>6, RdmStays
    <3> QED  BY <3>2, <3>3
  <2> QED  BY <2>2, <2>3
<1> QED  BY <1>14, <1>13

---------------------------------------------------------------------------
(* What rc does, with the answer to its command.                           *)

LEMMA HeadInFront ==
    ASSUME NEW S, NEW s \in Seq(S), s # <<>>
    PROVE  Head(s) \in S /\ Tail(s) \in Seq(S) /\ s = <<Head(s)>> \o Tail(s)
<1> DEFINE m == Head(s)
           rest == Tail(s)
           one == <<m>>
           both == one \o rest
<1>1. Len(s) \in Nat \ {0} /\ m = s[1]
  <2>1. Len(s) \in Nat /\ Len(s) # 0
    BY EmptySeq, LenProperties
  <2> QED  BY <2>1
<1>2. /\ m \in S /\ rest \in Seq(S) /\ Len(rest) = Len(s) - 1
      /\ \A k \in 1..Len(rest) : rest[k] = s[k + 1]
  BY HeadTailProperties
<1>3. one \in Seq(S) /\ Len(one) = 1 /\ one[1] = m
  BY <1>2
<1> HIDE DEF m, rest, one
<1>4. /\ both \in Seq(S) /\ Len(both) = Len(one) + Len(rest)
      /\ \A k \in 1..(Len(one) + Len(rest)) : both[k] = IF k <= Len(one) THEN one[k] ELSE rest[k - Len(one)]
  <2>1. one \in Seq(S) /\ rest \in Seq(S)
    BY <1>2, <1>3
  <2> QED  BY <2>1, ConcatProperties
<1> HIDE DEF both
<1>5. Len(both) = Len(s) /\ Len(s) = Len(one) + Len(rest) /\ Len(rest) \in Nat
  BY <1>1, <1>2, <1>3, <1>4
<1>6. \A k \in 1..Len(s) : both[k] = s[k]
  <2> TAKE k \in 1..Len(s)
  <2>1. CASE k = 1
    BY <1>1, <1>3, <1>4, <1>5, <2>1
  <2>2. CASE k # 1
    <3>1. k - 1 \in 1..Len(rest) /\ ~(k <= 1) /\ (k - 1) + 1 = k /\ k \in 1..(Len(one) + Len(rest))
      BY <1>3, <1>5, <2>2
    <3>2. both[k] = rest[k - 1]
      BY <1>3, <1>4, <3>1
    <3> QED  BY <1>2, <3>1, <3>2
  <2> QED  BY <2>1, <2>2
<1>7. both = s
  BY <1>4, <1>5, <1>6, SeqEqual
<1> QED  BY <1>2, <1>7 DEF both, one, m, rest

\* rc takes the next message of the answer.
LEMMA TakePrints ==
    ASSUME IInv, CalmInv, Taking, slots = 1, cmd \in Commands, UNCHANGED <<setup, cmd, written>>
    PROVE  PrintInv'
<1>1. /\ TypeInv /\ CountInv /\ PrintInv /\ cmd \in CommandNumbers /\ Numbers(cmd - 1) /\ (cmd - 1) + 1 = cmd
      /\ \A k \in 1..(cmd - 1) : written[k] \in 0..MaxMessages
  BY CommandsAre DEF IInv, CalmInv
<1> DEFINE before == AnswersBefore(cmd, written)
           fl == InFlight
           m == Head(fl)
           rest == Tail(fl)
           l == Line(cmd, m)
           t == Tagged(cmd, rest)
           answer == Answer(cmd, Due)
<1>2. fl \in Seq(Messages) /\ fl # <<>>
  BY StreamNow DEF IInv, Taking
<1>3. m \in Messages /\ rest \in Seq(Messages) /\ fl = <<m>> \o rest
  <2> HIDE DEF fl
  <2> QED  BY <1>2, HeadInFront
<1>4. PICK p \in Seq(Prints) : printed = before \o p /\ p \o Tagged(cmd, fl) = answer
  BY <1>1 DEF PrintInv, Lined
<1>5. InFlight' = rest /\ printed' = Append(printed, l)
  BY DEF Taking, Line
<1>6. /\ l \in Prints /\ <<l>> \in Seq(Prints) /\ t \in Seq(Prints) /\ before \in Seq(Prints)
      /\ Tagged(cmd, fl) = <<l>> \o t /\ p \o <<l>> \in Seq(Prints)
  <2>1. <<m>> \in Seq(Messages)
    <3> HIDE DEF m
    <3> QED  BY <1>3
  <2> HIDE DEF m, rest, fl
  <2>2. Tagged(cmd, <<m>>) = <<l>> /\ l \in Prints
    BY <1>1, <1>3, TaggedOne, LineIsPrint
  <2>3. Tagged(cmd, fl) = Tagged(cmd, <<m>>) \o t
    BY <1>1, <1>3, <2>1, TaggedBoth
  <2>4. t \in Seq(Prints)
    BY <1>1, <1>3, TaggedIs
  <2>5. before \in Seq(Prints)
    BY <1>1, BeforeIsPrints
  <2> HIDE DEF l, t, before
  <2>6. <<l>> \in Seq(Prints)
    BY <2>2
  <2> QED  BY <2>2, <2>3, <2>4, <2>5, <2>6, ConcatProperties
<1> DEFINE more == p \o <<l>>
<1>7. more \o t = answer
  <2> HIDE DEF l, t, fl, answer
  <2>1. (p \o <<l>>) \o t = p \o (<<l>> \o t)
    BY <1>6, ConcatAssociative, SMTT(30)
  <2> QED  BY <1>4, <1>6, <2>1
<1>8. printed' = before \o more
  <2> HIDE DEF l, before
  <2>1. before \o p \in Seq(Prints)
    BY <1>6, ConcatProperties
  <2>2. Append(before \o p, l) = (before \o p) \o <<l>>
    BY <1>6, <2>1, AppendIsConcat
  <2>3. (before \o p) \o <<l>> = before \o (p \o <<l>>)
    BY <1>6, ConcatAssociative, SMTT(30)
  <2> QED  BY <1>4, <1>5, <2>2, <2>3
<1>9. Due' = Due
  BY SetupStays DEF Due
<1>10. Lined(printed', cmd', Due', written', InFlight')
  <2>1. printed' = AnswersBefore(cmd', written') \o more
    BY <1>8
  <2>2. more \o Tagged(cmd', InFlight') = Answer(cmd', Due')
    BY <1>5, <1>7, <1>9
  <2>3. more \in Seq(Prints)
    BY <1>6
  <2> HIDE DEF more
  <2> QED  BY <2>1, <2>2, <2>3 DEF Lined
<1> QED  BY <1>10, PrintNext

\* Of a command that got no message nothing is printed.
LEMMA NothingIsPrinted ==
    ASSUME NEW i
    PROVE  Answer(i, 0) = <<>> /\ Tagged(i, <<>>) = <<>>
<1> DEFINE Body(f) == [k \in 0..0 |-> IF k = 0 THEN <<>>
                                      ELSE IF BodySize[k] > 0 THEN Append(f[k - 1], Line(i, <<i, k>>))
                                      ELSE f[k - 1]]
           seen == CHOOSE f : f = Body(f)
           none == [k \in 0..0 |-> <<>>]
<1>1. none = Body(none)
  <2>1. \A k \in 0..0 : k = 0
    OBVIOUS
  <2> QED  BY <2>1, Zenon
<1>2. seen = Body(seen)
  BY <1>1
<1>3. seen[0] = <<>>
  <2>1. 0 \in 0..0
    OBVIOUS
  <2> HIDE DEF seen
  <2> QED  BY <1>2, <2>1
<1>4. Answer(i, 0) = seen[0]
  BY DEF Answer, Line
<1>5. Tagged(i, <<>>) = <<>>
  BY DEF Tagged
<1> QED  BY <1>3, <1>4, <1>5

\* rc goes on to the next command.
LEMMA NextCommand ==
    ASSUME IInv, CalmInv, cmd \in Commands, InFlight = <<>>, InFlight' = <<>>, cmd' = cmd + 1,
           UNCHANGED <<setup, printed, written>>
    PROVE  PrintInv' /\ Due' = 0
<1>1. /\ TypeInv /\ CountInv /\ PrintInv /\ cmd \in CommandNumbers /\ cmd \in Nat \ {0} /\ Numbers(cmd - 1)
      /\ \A k \in 1..(cmd - 1) : written[k] \in 0..MaxMessages
      /\ Commands = 1..Len(setup.mCommands) /\ Len(setup.mCommands) \in Nat /\ Due \in 0..MaxMessages
      /\ (cmd - 1) + 1 = cmd
  BY CommandsAre DEF IInv, CalmInv
<1>2. PICK p \in Seq(Prints) : printed = AnswersBefore(cmd, written) \o p /\ p \o Tagged(cmd, <<>>) = Answer(cmd, written[cmd])
  BY <1>1 DEF PrintInv, Lined, Due
<1>3. p = Answer(cmd, written[cmd])
  BY <1>2, NothingIsPrinted, ConcatEmptySeq
<1>4. Numbers(cmd) /\ \A k \in 1..cmd : written[k] \in 0..MaxMessages
  BY <1>1 DEF Numbers, Due
<1>5. AnswersBefore(cmd + 1, written) = AnswersBefore(cmd, written) \o p
  BY <1>1, <1>3, <1>4, BeforeGrows
<1>6. Due' = 0
  BY <1>1, SetupStays DEF Due, CountInv
<1>7. Lined(printed', cmd', Due', written', InFlight')
  <2>1. AnswersBefore(cmd + 1, written) \in Seq(Prints)
    BY <1>4, BeforeIsPrints
  <2>2. printed = AnswersBefore(cmd + 1, written) \o <<>>
    BY <1>2, <1>5, <2>1, ConcatEmptySeq
  <2>3. <<>> \in Seq(Prints) /\ <<>> \o <<>> = <<>>
    BY EmptySeq, ConcatEmptySeq
  <2>4. <<>> \o Tagged(cmd + 1, <<>>) = Answer(cmd + 1, 0)
    BY <2>3, NothingIsPrinted
  <2>5. Lined(printed, cmd + 1, 0, written, <<>>)
    BY <2>2, <2>3, <2>4 DEF Lined
  <2> QED  BY <1>6, <2>5
<1> QED  BY <1>6, <1>7, PrintNext

\* The bytes are where they were.
LEMMA QuietStream ==
    ASSUME UNCHANGED <<reader, conn>>
    PROVE  InFlight' = InFlight /\ SameConn
<1>1. Stream' = Stream
  BY DEF Stream, Unread
<1> QED  BY <1>1, SameStream DEF SameConn, Joined, Untouched

\* Steps of the event loop, as long as no timer is due.
LEMMA LoopIsCalm ==
    ASSUME IInv, CalmInv,
           Finished \/ (Select /\ timer # "due") \/ handlePipe \/ processStdinDangling \/ Type \/ Tick
    PROVE  CalmInv'
<1>1. UNCHANGED <<setup, cmd, mConnection, reader, slots, printed, toServer, conn, written, processes>>
  BY DEF Finished, Select, handlePipe, processStdinDangling, Type, Tick, serverVars
<1>2. InFlight' = InFlight /\ SameConn
  BY <1>1, QuietStream
<1>3. PrintInv'
  BY <1>1, <1>2, PrintStays DEF CalmInv
<1>4. Idle' = Idle /\ (pc' = "start" => pc = "start")
  BY DEF Finished, Select, handlePipe, AfterStdin, processStdinDangling, Type, Tick, Idle
<1>5. \/ UNCHANGED <<pipe, mQuit>>
      \/ ~Idle /\ mQuit' = (mQuit \/ "q" \in pipe) /\ pipe' = {}
  BY DEF Finished, Select, handlePipe, processStdinDangling, Type, Tick, loopVars, Idle
<1>6. CASE Idle
  <2>1. "q" \notin pipe'
    BY <1>5, <1>6 DEF CalmInv, RestInv
  <2> QED  BY <1>1, <1>2, <1>3, <1>4, <1>6, <2>1, RestGoesOn
<1>7. CASE ~Idle
  <2>1. ("q" \in pipe' \/ mQuit' => ~mConnection') /\ (mQuit' => "q" \notin pipe')
    <3>1. ("q" \in pipe \/ mQuit => ~mConnection) /\ (mQuit => "q" \notin pipe)
      BY <1>7 DEF CalmInv, LoopInv
    <3>2. CASE UNCHANGED <<pipe, mQuit>>
      BY <1>1, <3>1, <3>2
    <3>3. CASE mQuit' = (mQuit \/ "q" \in pipe) /\ pipe' = {}
      <4>1. "q" \notin pipe' /\ (mQuit' => ~mConnection)
        BY <3>1, <3>3
      <4> QED  BY <1>1, <4>1
    <3> QED  BY <1>5, <3>2, <3>3
  <2> QED  BY <1>1, <1>2, <1>3, <1>4, <1>7, <2>1, LoopGoesOn
<1> QED  BY <1>6, <1>7

\* rc takes bytes, and looks at them.
LEMMA ReadingIsCalm ==
    ASSUME IInv, CalmInv, readMore \/ readEnd \/ parseHeader
    PROVE  CalmInv'
<1>1. UNCHANGED <<setup, cmd, mConnection, slots, pipe, mQuit, printed, toServer, written, processes>>
  BY DEF readMore, readEnd, parseHeader, loopVars, serverVars
<1>2. InFlight' = InFlight
  BY readMoreKeeps, readEndKeeps, parseHeaderKeeps
<1>3. SameConn
  <2>1. CASE readEnd \/ parseHeader
    <3>1. conn' = conn
      BY <2>1 DEF readEnd, parseHeader, serverVars
    <3> QED  BY <3>1 DEF SameConn, Joined, Untouched
  <2>2. CASE readMore
    <3> DEFINE r == Min(ChunkSize, Len(conn.wire))
               R == SubSeq(conn.wire, r + 1, Len(conn.wire))
    <3>1. conn' = [conn EXCEPT !.wire = R] /\ ~Untouched /\ conn \in Conns
      BY <2>2 DEF readMore, Untouched, IInv, TypeInv, ServerTypes
    <3> HIDE DEF R
    <3> QED  BY <3>1 DEF SameConn, Joined, Conns
  <2> QED  BY <2>1, <2>2
<1>4. PrintInv'
  BY <1>1, <1>2, PrintStays DEF CalmInv
<1>5. ~Idle /\ ~Idle'
  BY DEF readMore, readEnd, parseHeader, Idle
<1>6. ("q" \in pipe \/ mQuit => ~mConnection) /\ (mQuit => "q" \notin pipe)
  BY <1>5 DEF CalmInv, LoopInv
<1> QED  BY <1>1, <1>3, <1>4, <1>5, <1>6, LoopGoesOn

LEMMA parseMessageIsCalm ==
    ASSUME IInv, CalmInv, parseMessage
    PROVE  CalmInv'
<1>1. /\ UNCHANGED <<setup, cmd, mConnection, slots, pipe, mQuit, toServer, written, processes, conn>>
      /\ pc = "parse" /\ pc' = "parse"
  BY DEF parseMessage, loopVars, serverVars
<1>2. SameConn
  BY <1>1 DEF SameConn, Joined, Untouched
<1>3. ~Idle /\ ~Idle'
  BY <1>1 DEF Idle
<1>4. LoopInv
  BY <1>3 DEF CalmInv
<1>5. PrintInv'
  BY <1>1, <1>4, parseMessageKeeps, TakePrints DEF LoopInv
<1> QED  BY <1>1, <1>2, <1>3, <1>4, <1>5, LoopGoesOn DEF LoopInv

\* At the end of the stream rc drops the connection and will leave its loop.
LEMMA parseEndIsCalm ==
    ASSUME IInv, CalmInv, parseEnd
    PROVE  CalmInv'
<1>1. /\ UNCHANGED <<setup, cmd, slots, reader, mQuit, printed, toServer, written, processes, conn>>
      /\ pc = "parse" /\ pc' = "end"
      /\ IF reader.eof THEN mConnection' = FALSE /\ pipe' = pipe \cup {"wake", "q"}
                       ELSE UNCHANGED <<mConnection, pipe>>
  BY DEF parseEnd, serverVars
<1>2. InFlight' = InFlight /\ SameConn
  BY <1>1, QuietStream
<1>3. PrintInv'
  BY <1>1, <1>2, PrintStays DEF CalmInv
<1>4. ~Idle /\ ~Idle'
  BY <1>1 DEF Idle
<1>5. LoopInv /\ mConnection /\ ~mQuit
  BY <1>1, <1>4 DEF CalmInv, LoopInv, IInv, RcInv
<1>6. reader.eof => ~Joined
  BY DEF IInv, RcInv, Joined
<1>7. /\ mConnection /\ Joined => mConnection'
      /\ "q" \in pipe' \/ mQuit' => ~mConnection'
      /\ mQuit' => "q" \notin pipe'
  BY <1>1, <1>5, <1>6 DEF LoopInv
<1> QED  BY <1>1, <1>2, <1>3, <1>4, <1>7, LoopGoesOn

\* rc leaves its loop behind the end of the stream.
LEMMA RoundEndIsCalm ==
    ASSUME IInv, CalmInv, RoundEnd
    PROVE  CalmInv'
<1>1. /\ UNCHANGED <<setup, mConnection, slots, reader, pipe, mQuit, printed, toServer, written, processes, conn>>
      /\ pc = "end"
      /\ IF mQuit THEN pc' = "exec" /\ cmd' = cmd + 1 ELSE pc' = "select" /\ UNCHANGED cmd
  BY DEF RoundEnd, serverVars
<1>2. InFlight' = InFlight /\ SameConn
  BY <1>1, QuietStream
<1>3. ~Idle /\ LoopInv
  BY <1>1 DEF Idle, CalmInv
<1>4. CASE ~mQuit
  <2>1. PrintInv'
    BY <1>1, <1>2, <1>4, PrintStays DEF CalmInv
  <2>2. ~Idle'
    BY <1>1, <1>4 DEF Idle
  <2> QED  BY <1>1, <1>2, <1>3, <1>4, <2>1, <2>2, LoopGoesOn DEF LoopInv
<1>5. CASE mQuit
  <2>1. ~mConnection /\ "q" \notin pipe /\ cmd \in Commands
    BY <1>3, <1>5 DEF LoopInv
  <2>2. InFlight = <<>> /\ ~Joined
    BY <2>1 DEF IInv, RcInv, Joined
  <2>3. AtRest
    BY <2>2 DEF CalmInv, CountInv
  <2>4. cmd' = cmd + 1 /\ pc' = "exec"
    BY <1>1, <1>5
  <2>5. PrintInv' /\ Due' = 0
    BY <1>1, <1>2, <2>1, <2>2, <2>4, NextCommand
  <2>6. AtRest' /\ ~Joined' /\ InFlight' = <<>> /\ ~mConnection'
    BY <1>1, <1>2, <2>1, <2>2, <2>3 DEF AtRest, Joined
  <2>7. RestInv' /\ Idle'
    BY <1>1, <2>1, <2>4, <2>5, <2>6 DEF RestInv, Idle
  <2>8. CountInv'
    BY <1>1, <2>1, <2>4, <2>6, SetupStays, CommandsAre DEF CountInv, CalmInv, IInv
  <2> QED  BY <2>5, <2>7, <2>8 DEF CalmInv
<1> QED  BY <1>4, <1>5

\* A query for the command that rc runs, on a connection with nothing on it.
LEMMA AskingIsCalm ==
    ASSUME CalmInv, Idle, cmd \in Commands, UNCHANGED <<setup, cmd, printed, written, processes>>,
           InFlight' = InFlight, ~Idle', slots' = 1, mConnection', "q" \notin pipe', ~mQuit',
           toServer' = <<Asked(0)>>, Joined', Untouched', conn'.lookups = {}, conn'.loggers = {}
    PROVE  CalmInv'
<1>1. RestInv /\ CountInv /\ PrintInv
  BY DEF CalmInv
<1>2. /\ Asks' = Asks /\ Commands' = Commands /\ Asked(0)' = Asked(0) /\ Lasts(Asks)' = Lasts(Asks)
  BY SameCommand
<1>3. PrintInv'
  BY <1>1, PrintStays
<1>4. CountInv'
  BY <1>1, <1>2 DEF CountInv
<1>5. LoopInv'
  BY <1>2 DEF LoopInv
<1>6. written'[cmd'] = 0 /\ processes' = {}
  BY <1>1 DEF RestInv, Due, AtRest
<1>7. AnswerInv'
  <2>1. Waiting'
    BY <1>2, <1>6 DEF Waiting
  <2> QED  BY <2>1 DEF AnswerInv, Untouched
<1>8. StreamInv'
  <2> DEFINE q == Asked(0)
             s == <<q>>
  <2>1. q.cmd = cmd /\ q.type = Asks
    BY DEF Asked, Asks
  <2> HIDE DEF q
  <2>2. s # <<>> /\ Head(s) = q /\ Len(s) = 1 /\ s[1] = q
    OBVIOUS
  <2>3. \A k \in 1..Len(s) : s[k].cmd = cmd /\ s[k].type = Asks
    BY <2>1, <2>2
  <2> HIDE DEF s
  <2>4. toServer' = s
    BY DEF s, q
  <2> QED  BY <1>2, <1>6, <2>1, <2>2, <2>3, <2>4 DEF StreamInv, Untouched
<1> QED  BY <1>3, <1>4, <1>5, <1>7, <1>8 DEF CalmInv, ServedInv

LEMMA sendMessageIsCalm ==
    ASSUME IInv, CalmInv, sendMessage
    PROVE  CalmInv'
<1>1. /\ pc = "exec" /\ cmd \in Commands /\ mConnection /\ pc' = "select" /\ slots' = slots + 1
      /\ toServer' = (IF conn.link = "closed" THEN toServer ELSE Append(toServer, Asked(0)))
      /\ pipe' = pipe \cup {"wake"} /\ mQuit' = FALSE
      /\ UNCHANGED <<setup, cmd, mConnection, reader, printed, conn, written, processes>>
  BY DEF sendMessage, AddTimer
<1>2. Idle /\ ~Idle'
  BY <1>1 DEF Idle
<1>3. /\ slots = 0 /\ Joined /\ Untouched /\ "q" \notin pipe /\ toServer = <<>>
      /\ conn.lookups = {} /\ conn.loggers = {}
  BY <1>1, <1>2 DEF CalmInv, RestInv, AtRest
<1>4. toServer' = <<Asked(0)>>
  <2> DEFINE q == Asked(0)
  <2>1. toServer' = Append(<<>>, q)
    BY <1>1, <1>3 DEF Joined
  <2> HIDE DEF q
  <2> QED  BY <2>1 DEF q
<1>5. InFlight' = InFlight /\ Joined' /\ Untouched'
  BY <1>1, <1>3, QuietStream DEF SameConn
<1>6. slots' = 1 /\ mConnection' /\ "q" \notin pipe' /\ ~mQuit' /\ conn'.lookups = {} /\ conn'.loggers = {}
  BY <1>1, <1>3
<1> QED  BY <1>1, <1>2, <1>4, <1>5, <1>6, AskingIsCalm

\* A new connection.
LEMMA ConnectsFresh ==
    ASSUME TryConnect, serverUp'
    PROVE  Joined' /\ Untouched' /\ conn'.lookups = {} /\ conn'.loggers = {}
  BY DEF TryConnect, Connected, NewConnection, Joined, Untouched

LEMMA StaysAway ==
    ASSUME TryConnect, ~serverUp'
    PROVE  UNCHANGED <<conn, reader>>
  BY DEF TryConnect, Connected

LEMMA connectAndSendIsCalm ==
    ASSUME IInv, CalmInv, connectAndSend
    PROVE  CalmInv'
<1>1. /\ pc = "exec" /\ cmd \in Commands /\ ~mConnection /\ TryConnect
      /\ UNCHANGED <<setup, printed, written, processes>> /\ InFlight' = InFlight
  BY connectAndSendKeeps DEF connectAndSend
<1>2. Idle
  BY <1>1 DEF Idle
<1>3. "q" \notin pipe /\ InFlight = <<>> /\ AtRest /\ Due = 0
  BY <1>2 DEF CalmInv, RestInv
<1>4. CASE serverUp'
  <2>1. /\ pipe' = pipe \cup {"wake"} /\ mQuit' = FALSE /\ mConnection' = TRUE /\ slots' = 1
        /\ toServer' = <<Asked(0)>> /\ pc' = "select" /\ UNCHANGED cmd
    BY <1>4 DEF connectAndSend, AddTimer
  <2>2. Joined' /\ Untouched' /\ conn'.lookups = {} /\ conn'.loggers = {}
    BY <1>1, <1>4, ConnectsFresh
  <2>3. ~Idle' /\ mConnection' /\ ~mQuit' /\ "q" \notin pipe'
    BY <1>3, <2>1 DEF Idle
  <2> QED  BY <1>1, <1>2, <2>1, <2>2, <2>3, AskingIsCalm
<1>5. CASE ~serverUp'
  <2>1. /\ IF setup.autostart THEN pc' = "crashed" /\ UNCHANGED cmd ELSE pc' = "exec" /\ cmd' = cmd + 1
        /\ pipe' \in {pipe, pipe \cup {"wake"}} /\ UNCHANGED <<mConnection, slots, toServer>>
    BY <1>5 DEF connectAndSend
  <2>2. UNCHANGED <<conn, reader>>
    BY <1>1, <1>5, StaysAway
  <2>3. "q" \notin pipe' /\ SameConn /\ Idle' /\ pc' # "start"
    BY <1>3, <2>1, <2>2, QuietStream DEF Idle
  <2>4. CASE setup.autostart
    <3>1. PrintInv'
      BY <1>1, <2>1, <2>4, PrintStays DEF CalmInv
    <3> QED  BY <1>1, <1>2, <2>1, <2>3, <2>4, <3>1, RestGoesOn
  <2>5. CASE ~setup.autostart
    <3>1. PrintInv' /\ Due' = 0
      BY <1>1, <1>3, <2>1, <2>5, NextCommand
    <3>2. AtRest' /\ ~mConnection'
      BY <1>1, <1>3, <2>1, <2>2 DEF AtRest
    <3>3. RestInv'
      BY <1>1, <1>3, <2>3, <3>1, <3>2 DEF RestInv
    <3>4. CountInv'
      BY <1>1, <2>1, <2>5, <3>2, SetupStays, CommandsAre DEF CountInv, CalmInv, IInv
    <3> QED  BY <2>3, <3>1, <3>3, <3>4 DEF CalmInv
  <2> QED  BY <2>4, <2>5
<1> QED  BY <1>4, <1>5

LEMMA StartIsCalm ==
    ASSUME IInv, CalmInv, Start
    PROVE  CalmInv'
<1>1. /\ pc = "start" /\ TryConnect /\ mConnection' = serverUp' /\ toServer' = <<>> /\ pc' = "exec"
      /\ UNCHANGED <<setup, cmd, slots, pipe, printed, written, processes>> /\ InFlight' = InFlight
  BY StartKeeps DEF Start, loopVars
<1>2. Idle /\ Idle'
  BY <1>1 DEF Idle
<1>3. RestInv /\ CountInv /\ PrintInv
  BY <1>2 DEF CalmInv
<1>4. PrintInv'
  BY <1>1, <1>3, PrintStays
<1>5. AtRest'
  <2>1. CASE serverUp'
    BY <1>1, <1>3, <2>1, ConnectsFresh DEF RestInv, AtRest
  <2>2. CASE ~serverUp'
    BY <1>1, <1>3, <2>2, StaysAway DEF RestInv, AtRest
  <2> QED  BY <2>1, <2>2
<1>6. CountInv'
  BY <1>1, <1>3, <1>5, SetupStays DEF CountInv
<1>7. Due' = Due
  BY <1>1, SetupStays DEF Due
<1>8. mConnection' => slots' = 0 /\ Joined' /\ Untouched'
  BY <1>1, <1>3, ConnectsFresh DEF RestInv
<1>9. RestInv'
  BY <1>1, <1>3, <1>5, <1>7, <1>8 DEF RestInv
<1> QED  BY <1>2, <1>4, <1>6, <1>9 DEF CalmInv

\* A completion is asked for on a stream that rdm keeps open.
LEMMA processStdinIsCalm ==
    ASSUME IInv, CalmInv, processStdin
    PROVE  CalmInv'
<1>1. /\ pc = "stdin" /\ Streaming /\ UNCHANGED <<setup, cmd, pipe, mQuit, printed, written, processes>>
  BY DEF processStdin
<1>2. ~Idle
  BY <1>1 DEF Idle
<1>3. LoopInv /\ CountInv /\ PrintInv /\ Lasts(Asks) /\ StreamInv
  BY <1>1, <1>2, StreamLasts DEF CalmInv, ServedInv, Streaming, Asks
<1>4. Joined /\ mConnection
  BY <1>3 DEF StreamInv
<1>5. /\ Written \/ UNCHANGED toServer
      /\ pc' = AfterStdin /\ UNCHANGED <<mConnection, slots, reader, conn>>
  BY <1>4 DEF processStdin
<1>6. toServer' = Append(toServer, Request) \/ UNCHANGED toServer
  BY <1>4, <1>5 DEF Written, Joined
<1>7. InFlight' = InFlight /\ Joined'
  BY <1>4, <1>5, QuietStream DEF Joined
<1>8. PrintInv'
  BY <1>1, <1>3, <1>7, PrintStays
<1>9. CountInv' /\ LoopInv' /\ ~Idle'
  BY <1>1, <1>3, <1>5, <1>7, SetupStays DEF CountInv, LoopInv, Idle, AfterStdin
<1>10. /\ \A k \in 1..Len(toServer') : toServer'[k].cmd = cmd /\ toServer'[k].type \in {Asks, "Completion"}
       /\ toServer # <<>> => toServer' # <<>> /\ Head(toServer') = Head(toServer)
  <2>1. CASE UNCHANGED toServer
    BY <1>3, <2>1 DEF StreamInv
  <2>2. CASE toServer' = Append(toServer, Request)
    <3> DEFINE q == Request
    <3>1. toServer \in Seq(Queries) /\ q \in Queries
      BY <1>3, AskedIsQuery DEF IInv, TypeInv, ServerTypes, LoopInv
    <3>2. q.cmd = cmd /\ q.type = "Completion"
      BY DEF Request, Asked
    <3> HIDE DEF q
    <3>3. /\ Len(Append(toServer, q)) = Len(toServer) + 1 /\ Append(toServer, q) # <<>>
          /\ \A k \in 1..Len(toServer) : Append(toServer, q)[k] = toServer[k]
          /\ Append(toServer, q)[Len(toServer) + 1] = q /\ Len(toServer) \in Nat
      BY <3>1, AppendProperties, LenProperties
    <3>4. toServer' = Append(toServer, q)
      BY <2>2 DEF q
    <3>5. \A k \in 1..Len(toServer') : toServer'[k].cmd = cmd /\ toServer'[k].type \in {Asks, "Completion"}
      <4> TAKE k \in 1..Len(toServer')
      <4>1. k \in 1..Len(toServer) \/ k = Len(toServer) + 1
        BY <3>3, <3>4
      <4> QED  BY <1>3, <3>2, <3>3, <3>4, <4>1 DEF StreamInv
    <3>6. toServer # <<>> => toServer' # <<>> /\ Head(toServer') = Head(toServer)
      BY <3>1, <3>3, <3>4, HeadTailAppend
    <3> QED  BY <3>5, <3>6
  <2> QED  BY <1>6, <2>1, <2>2
<1>11. StreamInv'
  BY <1>1, <1>3, <1>5, <1>7, <1>10, SameCommand DEF StreamInv
<1>12. ServedInv'
  BY <1>1, <1>3, <1>11, ServedNext
<1> QED  BY <1>8, <1>9, <1>12 DEF CalmInv

LEMMA NextIsCalm ==
    ASSUME IInv, [Next]_vars, ~cutShort => CalmInv, ~cutShort'
    PROVE  CalmInv'
<1>0. IInv'
  BY NextKeeps
<1>1. CASE rcStep
  <2>1. CASE Start
    <3>1. CalmInv
      BY <2>1 DEF Start
    <3> QED  BY <2>1, <3>1, StartIsCalm
  <2>2. CASE sendMessage
    <3>1. CalmInv
      BY <2>2 DEF sendMessage
    <3> QED  BY <2>2, <3>1, sendMessageIsCalm
  <2>3. CASE connectAndSend
    <3>1. CalmInv
      BY <2>3 DEF connectAndSend
    <3> QED  BY <2>3, <3>1, connectAndSendIsCalm
  <2>4. CASE Finished \/ handlePipe \/ processStdinDangling
    <3>1. CalmInv
      BY <2>4 DEF Finished, handlePipe, processStdinDangling
    <3> QED  BY <2>4, <3>1, LoopIsCalm
  <2>5. CASE Select
    <3>1. CalmInv /\ timer # "due"
      BY <2>5 DEF Select
    <3> QED  BY <2>5, <3>1, LoopIsCalm
  <2>6. CASE processStdinFails
    BY <2>6 DEF processStdinFails
  <2>7. CASE processStdin
    <3>1. CalmInv
      BY <2>7 DEF processStdin
    <3> QED  BY <2>7, <3>1, processStdinIsCalm
  <2>8. CASE readMore \/ readEnd \/ parseHeader
    <3>1. CalmInv
      BY <2>8 DEF readMore, readEnd, parseHeader
    <3> QED  BY <2>8, <3>1, ReadingIsCalm
  <2>9. CASE parseMessage
    <3>1. CalmInv
      BY <2>9 DEF parseMessage
    <3> QED  BY <2>9, <3>1, parseMessageIsCalm
  <2>10. CASE parseEnd
    <3>1. CalmInv
      BY <2>10 DEF parseEnd
    <3> QED  BY <2>10, <3>1, parseEndIsCalm
  <2>11. CASE RoundEnd
    <3>1. CalmInv
      BY <2>11 DEF RoundEnd
    <3> QED  BY <2>11, <3>1, RoundEndIsCalm
  <2> QED  BY <1>1, <2>1, <2>2, <2>3, <2>4, <2>5, <2>6, <2>7, <2>8, <2>9, <2>10, <2>11 DEF rcStep
<1>2. CASE Type \/ Tick
  <2>1. CalmInv
    BY <1>2 DEF Type, Tick
  <2> QED  BY <1>2, <2>1, LoopIsCalm
<1>3. CASE Accept
  <2>1. CalmInv
    BY <1>3 DEF Accept, rcVars
  <2> QED  BY <1>3, <2>1, AcceptIsCalm
<1>4. CASE Handle
  <2>1. CalmInv
    BY <1>4 DEF Handle, rcVars
  <2> QED  BY <1>0, <1>4, <2>1, HandleIsCalm
<1>5. CASE WriteMore
  <2>1. CalmInv
    BY <1>5 DEF WriteMore, rcVars
  <2> QED  BY <1>0, <1>5, <2>1, WriteMoreIsCalm
<1>6. CASE Jobs
  <2>1. CASE JobEnds
    <3>1. PICK j \in conn.lookups : JobEnd(j)
      BY <2>1 DEF JobEnds
    <3>2. CalmInv
      BY <3>1 DEF JobEnd, rcVars
    <3> QED  BY <1>0, <3>1, <3>2, JobEndIsCalm
  <2>2. CASE \E i \in Commands : JobOutput(i) \/ LogOutput(i)
    <3>1. PICK i \in Commands : JobOutput(i) \/ LogOutput(i)
      BY <2>2
    <3>2. CalmInv
      BY <3>1 DEF JobOutput, LogOutput, rcVars
    <3> QED  BY <1>0, <3>1, <3>2, OutputIsCalm
  <2> QED  BY <1>6, <2>1, <2>2 DEF Jobs
<1>7. CASE ProcessEnd
  <2>1. CalmInv
    BY <1>7 DEF ProcessEnd, rcVars
  <2> QED  BY <1>0, <1>7, <2>1, ProcessEndIsCalm
<1>8. CASE ProcessEndDangling
  <2>1. CalmInv
    BY <1>8 DEF ProcessEndDangling, rcVars
  <2> QED  BY <1>8, <2>1, NothingDangles
<1>9. CASE UNCHANGED vars
  <2>1. /\ UNCHANGED <<setup, pc, cmd, mConnection, slots, reader, pipe, mQuit, printed, toServer, conn,
                       written, processes>>
        /\ CalmInv
    BY <1>9 DEF vars, rcVars, serverVars
  <2>2. InFlight' = InFlight /\ SameConn
    BY <2>1, QuietStream
  <2>3. PrintInv' /\ Idle' = Idle
    BY <2>1, <2>2, PrintStays DEF CalmInv, Idle
  <2>4. CASE Idle
    <3>1. "q" \notin pipe
      BY <2>1, <2>4 DEF CalmInv, RestInv
    <3> QED  BY <2>1, <2>2, <2>3, <2>4, <3>1, RestGoesOn
  <2>5. CASE ~Idle
    <3>1. LoopInv
      BY <2>1, <2>5 DEF CalmInv
    <3> QED  BY <2>1, <2>2, <2>3, <2>5, <3>1, LoopGoesOn DEF LoopInv
  <2> QED  BY <2>4, <2>5
<1> QED  BY <1>1, <1>2, <1>3, <1>4, <1>5, <1>6, <1>7, <1>8, <1>9 DEF Next

LEMMA InitIsCalm ==
    ASSUME Init
    PROVE  CalmInv
<1>1. /\ pc = "start" /\ cmd = 1 /\ ~mConnection /\ slots = 0 /\ pipe = {} /\ ~mQuit /\ printed = <<>>
      /\ toServer = <<>> /\ written = [i \in Commands |-> 0] /\ processes = {}
      /\ conn.lookups = {} /\ conn.loggers = {} /\ InFlight = <<>>
  BY InitEstablishes DEF Init, NewConnection
<1>2. Due = 0
  BY <1>1 DEF Due
<1>3. PrintInv
  <2>1. Numbers(0) /\ \A k \in 1..0 : written[k] \in 0..MaxMessages
    BY DEF Numbers
  <2>2. AnswersBefore(1, written) = <<>>
    BY <2>1, BeforeIsPrints
  <2>3. <<>> \in Seq(Prints) /\ <<>> \o <<>> = <<>>
    BY EmptySeq, ConcatEmptySeq
  <2>4. printed = AnswersBefore(cmd, written) \o <<>> /\ <<>> \o Tagged(cmd, InFlight) = Answer(cmd, Due)
    BY <1>1, <1>2, <2>2, <2>3, NothingIsPrinted
  <2> QED  BY <2>3, <2>4 DEF PrintInv, Lined
<1>4. CountInv
  <2>1. Len(setup.mCommands) \in Nat
    BY InitEstablishes, LenProperties DEF IInv, TypeInv, SetupTypes, Setups
  <2> QED  BY <1>1, <2>1 DEF CountInv, AtRest
<1>5. Idle /\ RestInv
  BY <1>1, <1>2 DEF Idle, RestInv, AtRest
<1> QED  BY <1>3, <1>4, <1>5 DEF CalmInv

LEMMA CalmIsOwn ==
    ASSUME IInv, CalmInv
    PROVE  OwnAnswers
<1>1. PICK p \in Seq(Prints) : /\ printed = AnswersBefore(cmd, written) \o p
                               /\ p \o Tagged(cmd, InFlight) = Answer(cmd, Due)
  BY DEF CalmInv, PrintInv, Lined
<1>2. Due \in 0..MaxMessages /\ (cmd \in Commands => cmd \in CommandNumbers) /\ InFlight \in Seq(Messages)
  BY CommandsAre, StreamNow DEF IInv, CalmInv
<1>3. \E n \in 0..Due : p = Answer(cmd, n)
  <2>1. CASE cmd \in Commands
    <3>1. Tagged(cmd, InFlight) \in Seq(Prints)
      BY <1>2, <2>1, TaggedIs
    <3> QED  BY <1>1, <1>2, <2>1, <3>1, BeginningOfAnswer
  <2>2. CASE cmd \notin Commands
    <3>1. InFlight = <<>> /\ Due = 0
      BY <2>2 DEF CalmInv, LoopInv, RestInv
    <3>2. p = Answer(cmd, 0)
      BY <1>1, <3>1, NothingIsPrinted, ConcatEmptySeq
    <3> QED  BY <3>1, <3>2
  <2> QED  BY <2>1, <2>2
<1> QED  BY <1>1, <1>3 DEF OwnAnswers, Due

---------------------------------------------------------------------------
(* What the specification promises.                                        *)

\* The books of both ends agree with the bytes in every state: what rdm counts
\* as pending is what it has not sent, it hangs up only with nothing left, and
\* rc reads inside its buffer (Connection.cpp, LocalClient.cpp).
THEOREM StreamsAccountedHolds == Spec => []StreamsAccounted
<1>1. IInv => StreamsAccounted
  BY DEF IInv, TypeInv, BooksInv, Books, RcTypes, ServerTypes, Conns, Links, Places, StreamsAccounted
<1> QED  BY <1>1, InvariantHolds, PTL

\* The bytes in flight are a queue of whole messages, whatever the sizes of
\* the pieces they travel in: rc takes each message once and in order, and
\* only the end of rdm loses any (Connection::send and dataAvailable,
\* LocalClient::readMore and writeMore).
THEOREM AnswersAreAQueueHolds == Spec => AnswersAreAQueue
<1>1. Init => Queue!Init
  BY InitEstablishes
<1>2. IInv /\ [Next]_vars => [Queue!Next]_(Queue!vars)
  BY NextKeeps DEF Maps
<1> QED  BY <1>1, <1>2, InvariantHolds, PTL DEF Spec, AnswersAreAQueue, Queue!Spec

\* rc prints, command after command, what rdm wrote for that command, each
\* message once and in order, and all of it before it goes on -- unless a
\* timeout or a line that is no request has cut a command short
\* (RClient::exec, Client::sendMessage, Connection::send and finish, the
\* handlers of Server.cpp).
THEOREM OwnAnswersHolds == Spec => []OwnAnswers
<1>1. Init => CalmInv
  BY InitIsCalm
<1>2. IInv /\ (~cutShort => CalmInv) /\ [Next]_vars => (~cutShort => CalmInv)'
  BY NextIsCalm
<1>3. IInv /\ (~cutShort => CalmInv) => OwnAnswers
  BY CalmIsOwn DEF OwnAnswers
<1> QED  BY <1>1, <1>2, <1>3, InvariantHolds, PTL DEF Spec
=============================================================================
