---------------------------- MODULE Subsequences ----------------------------
(***************************************************************************)
(* What a loop leaves of a list when it erases, or skips, some of the      *)
(* elements: the others, in their order.                                   *)
(***************************************************************************)
EXTENDS Naturals, Sequences, FiniteSets

\* The elements of s at the given places: the k-th of them has k places up to its own.
Kept(s, places) ==
    LET Nth(k) == CHOOSE i \in places : Cardinality({j \in places : j <= i}) = k
    IN  [k \in 1 .. Cardinality(places) |-> s[Nth(k)]]
=============================================================================
