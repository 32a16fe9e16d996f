----------------------------- MODULE Selection -----------------------------
(***************************************************************************)
(* What is left of a sequence when some of its elements are dropped, as    *)
(* SelectSeq has it, by the positions that are kept: a form that says      *)
(* where each element comes from and can be reasoned about.                *)
(***************************************************************************)
EXTENDS Integers, Sequences, FiniteSets

\* How many of the numbers in S there are up to i.
CountUpTo(S, i) == Cardinality({j \in S : j <= i})

\* The k-th element left is at the kept position up to which there are k.
Subsequence(s, kept) ==
    [k \in 1..Cardinality(kept) |-> s[CHOOSE i \in kept : CountUpTo(kept, i) = k]]
=============================================================================
