---------------------------- MODULE AnswerQueue ----------------------------
(* What a user of rc is promised about the answers of rdm: the connection    *)
(* between them is a queue of whole messages.  rdm writes messages while the  *)
(* connection is open, rc takes them one at a time and in order, and rdm      *)
(* hanging up takes nothing back.  Only when rdm itself goes away may the     *)
(* tail of the queue be lost.                                                 *)
EXTENDS Sequences, Naturals

CONSTANT Message

VARIABLES
    up,         \* rdm runs
    open,       \* rc has a connection that rdm has not closed
    queue,      \* messages written and not yet taken
    taken       \* messages rc took, all connections together

vars == <<up, open, queue, taken>>

Init == up \in BOOLEAN /\ open = FALSE /\ queue = <<>> /\ taken = <<>>

(* rc may have started rdm first. *)
Open ==
    /\ up' = TRUE /\ ~open /\ queue = <<>>
    /\ open' = TRUE
    /\ UNCHANGED <<queue, taken>>

(* One handler may write several messages, and then hang up. *)
Write ==
    /\ up /\ open
    /\ UNCHANGED <<up, taken>>
    /\ open' \in BOOLEAN
    /\ LET before == queue
           after  == queue'
       IN after \in Seq(Message) /\ Len(after) >= Len(before) /\ SubSeq(after, 1, Len(before)) = before

Take ==
    /\ queue # <<>>
    /\ taken' = Append(taken, Head(queue)) /\ queue' = Tail(queue)
    /\ UNCHANGED <<up, open>>

(* The end of rdm, its last answer included. *)
GoDown ==
    /\ up /\ ~up' /\ ~open'
    /\ \E last \in {queue} \cup {Append(queue, m) : m \in Message} :
          \E keep \in 0 .. Len(last) : queue' = SubSeq(last, 1, keep)
    /\ UNCHANGED taken

Next == Open \/ Write \/ Take \/ GoDown

Spec == Init /\ [][Next]_vars
=============================================================================
