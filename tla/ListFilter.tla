----------------------------- MODULE ListFilter -----------------------------
(***************************************************************************)
(* What a filter leaves of a list, by the positions that stay.  SelectSeq  *)
(* gives the same list; the proofs reason about the positions.             *)
(***************************************************************************)
EXTENDS Naturals, FiniteSets

\* How many of a set of numbers are below one.
Rank(S, i) == Cardinality({h \in S : h < i})

\* The elements at some of the positions of a list, in their order.
Picked(list, kept) ==
  [j \in 1..Cardinality(kept) |-> list[CHOOSE i \in kept : Rank(kept, i) = j - 1]]
=============================================================================
