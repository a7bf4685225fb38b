---------------------------- MODULE Subsequences ----------------------------
(***************************************************************************)
(* Array.prototype.filter: the elements of a sequence at some of its       *)
(* places, in order.  It does what SelectSeq does, but takes a set where   *)
(* SelectSeq takes an operator, and the provers can follow it.             *)
(***************************************************************************)
EXTENDS Naturals, Sequences, FiniteSets

\* The n-th element comes from the place that has n - 1 of the places before it.
AtPlaces(s, places) ==
  [n \in 1..Cardinality(places) |->
     s[CHOOSE i \in places : Cardinality({j \in places : j < i}) = n - 1]]
=============================================================================
