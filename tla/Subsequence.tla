---------------------------- MODULE Subsequence ----------------------------
(***************************************************************************)
(* The elements of a sequence that a loop of the code keeps.  Filter gives *)
(* what SelectSeq of the standard modules gives; the provers know no       *)
(* definition of that one, and an index set can be reasoned about.         *)
(***************************************************************************)
EXTENDS Naturals, Sequences, FiniteSets

\* The k-th smallest number in I.
Nth(I, k) == CHOOSE n \in I : Cardinality({m \in I : m <= n}) = k

\* The numbers in I, from the smallest to the largest.
Ascending(I) == [k \in 1..Cardinality(I) |-> Nth(I, k)]

\* The elements of s whose index is in I, in their order.
Pick(s, I) == [k \in 1..Cardinality(I) |-> s[Nth(I, k)]]

\* The elements of s with a property.
Filter(s, Test(_)) == Pick(s, {n \in 1..Len(s) : Test(s[n])})
=============================================================================
