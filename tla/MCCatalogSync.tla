--------------------------- MODULE MCCatalogSync ---------------------------
(* Small instances of CatalogSync for TLC. *)
EXTENDS CatalogSync, TLC

CONSTANTS w1, w2, a, b, c

Row(p) == [product |-> p, written |-> 0]

OneRow == <<Row(a)>>

TwoRows == <<Row(a), Row(b)>>

(* Workers are alike. *)
Alike == Permutations(Workers)
=============================================================================
