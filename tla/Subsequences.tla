--------------------------- MODULE Subsequences ---------------------------
(***************************************************************************)
(* Part of a sequence, in the order of the sequence: what a loop that      *)
(* erases elements from a list leaves.  SelectSeq says the same by a       *)
(* recursion that nothing can be proved about.                             *)
(***************************************************************************)
EXTENDS Naturals, Sequences, FiniteSets

\* How many places of I come up to i.
Rank(I, i) == Cardinality({k \in I : k <= i})

\* The n-th place of I.
Place(I, n) == CHOOSE i \in I : Rank(I, i) = n

\* What s has at the places of I.
Subsequence(s, I) == [n \in 1..Cardinality(I) |-> s[Place(I, n)]]
===========================================================================
