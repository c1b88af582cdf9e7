------------------------------ MODULE Ranking ------------------------------
(***************************************************************************)
(* A finite set as a sequence, in the order of a relation, given as a set  *)
(* of pairs: what sorted() in listing.py and ORDER BY in storage/ return   *)
(* when the order is total.  It is written by the rank of an element, the  *)
(* number of elements before it, so that the provers can reason about it.  *)
(***************************************************************************)
EXTENDS Integers, FiniteSets

Before(S, less, i) == {j \in S : <<j, i>> \in less}

InOrder(S, less) ==
    [n \in 1..Cardinality(S) |-> CHOOSE i \in S : Cardinality(Before(S, less, i)) = n - 1]
=============================================================================
