------------------------------- MODULE Sublists -------------------------------
(* Array.prototype.filter: the entries of a list at some of its places.    *)
EXTENDS Integers, FiniteSets

Sublist(list, places) ==
  [k \in 1..Cardinality(places) |->
     list[CHOOSE i \in places : Cardinality({j \in places : j < i}) = k - 1]]
=============================================================================
