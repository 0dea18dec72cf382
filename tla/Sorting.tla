------------------------------- MODULE Sorting -------------------------------
(***************************************************************************)
(* Sorted sequences, by rank: entry k has k - 1 elements before it.        *)
(***************************************************************************)
EXTENDS Integers, FiniteSets

\* The elements of S, each behind those that come before it.
Ascending(S, Before(_, _)) ==
  [i \in 1 .. Cardinality(S) |->
     CHOOSE x \in S : Cardinality({y \in S : Before(y, x)}) = i - 1]

\* The elements of a sequence at the places in I, in order.
Picked(seq, I) == LET at == Ascending(I, <) IN [k \in 1 .. Cardinality(I) |-> seq[at[k]]]
=============================================================================
