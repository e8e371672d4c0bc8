---------------------------- MODULE SortedLists ----------------------------
(***************************************************************************)
(* What a query that is sorted answers (MongoDB's sort, which the          *)
(* repositories use on keys that no two documents share).                  *)
(***************************************************************************)
EXTENDS Naturals, FiniteSets

(* The order R is a set of pairs <<x, y>>: x comes before y. *)
Place(x, S, R) == Cardinality({y \in S : <<y, x>> \in R})

(* The elements of S, in that order. *)
SortedBy(S, R) ==
    [i \in 1..Cardinality(S) |-> CHOOSE x \in S : Place(x, S, R) = i - 1]

=============================================================================
