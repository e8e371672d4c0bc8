---------------------------- MODULE MCCatalogRead ----------------------------
(* Small instances of CatalogRead for TLC. *)
EXTENDS CatalogRead

CONSTANTS w1

TwoRows == <<[product |-> 1, written |-> 0], [product |-> 2, written |-> 0]>>
=============================================================================
