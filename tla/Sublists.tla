------------------------------ MODULE Sublists ------------------------------
(***************************************************************************)
(* What a list has at some of its positions, in order. It is what          *)
(* SelectSeq gives, in a form that can be reasoned about: by positions,    *)
(* and without recursion.                                                  *)
(***************************************************************************)
EXTENDS Naturals, Sequences, FiniteSets

\* Which of P, a set of positions, i is; and the n-th of them.
Place(P, i) == Cardinality({j \in P : j <= i})
Nth(P, n) == CHOOSE i \in P : Place(P, i) = n

Sublist(s, P) == [n \in 1 .. Cardinality(P) |-> s[Nth(P, n)]]
=============================================================================
