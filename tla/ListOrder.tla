------------------------------ MODULE ListOrder ------------------------------
(***************************************************************************)
(* The elements of a finite set as a list.  A strict order is a set of     *)
(* pairs, so that what is said of one order is said of any: the place of   *)
(* an element is the number of those that come before it.                  *)
(***************************************************************************)
EXTENDS Integers, FiniteSets

PlaceIn(S, R, x) == Cardinality({y \in S : <<y, x>> \in R})

Arranged(S, R) == [n \in 1..Cardinality(S) |-> CHOOSE x \in S : PlaceIn(S, R, x) = n - 1]

=============================================================================
