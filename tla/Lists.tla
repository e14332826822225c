------------------------------- MODULE Lists --------------------------------
(***************************************************************************)
(* What std::erase_if leaves of a list: the entries to keep, in their      *)
(* order.  It is the same as SelectSeq, defined by the positions that      *)
(* remain instead of by recursion, so that it can be reasoned about.       *)
(***************************************************************************)
EXTENDS Integers, Sequences, FiniteSets

Remaining(s, K) == {i \in DOMAIN s : s[i] \in K}

\* How many of the positions I are not after i.
Rank(I, i) == Cardinality({j \in I : j <= i})

\* The entries of s that are in K.
Filter(s, K) ==
  LET I == Remaining(s, K)
  IN  [k \in 1..Cardinality(I) |-> s[CHOOSE i \in I : Rank(I, i) = k]]
=============================================================================
