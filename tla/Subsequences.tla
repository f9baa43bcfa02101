---------------------------- MODULE Subsequences ----------------------------
(***************************************************************************)
(* What is left of a sequence when some of its positions are kept, without *)
(* recursion.                                                              *)
(***************************************************************************)
EXTENDS Integers, Sequences, FiniteSets

\* The element of P that k others are below.
Nth(P, k) == CHOOSE i \in P : Cardinality({j \in P : j < i}) = k

\* The entries of s at the positions P, in their order.
Keep(s, P) == [n \in 1 .. Cardinality(P) |-> s[Nth(P, n - 1)]]
=============================================================================
