------------------------- MODULE CatalogPublication -------------------------
(***************************************************************************)
(* What the product catalog promises its readers, without saying how: at   *)
(* any time there is one published catalog, and the only thing that ever   *)
(* happens to it is that a newer, complete one replaces it as a whole.     *)
(***************************************************************************)
EXTENDS Naturals

CONSTANTS
    Item,           \* what a published catalog may contain
    SizeOf(_)       \* the number of items in one

VARIABLES
    version,        \* the published catalog's version, 0 before the first
    catalog,        \* its items
    size            \* the number of items it is advertised to have

vars == <<version, catalog, size>>

Init ==
    /\ version = 0
    /\ catalog = {}
    /\ size = 0

(* A newer catalog replaces the published one, items and size together. *)
Publish ==
    /\ version' \in Nat
    /\ version' > version
    /\ catalog' \in SUBSET Item
    /\ size' = SizeOf(catalog')

Next == Publish

Spec == Init /\ [][Next]_vars
=============================================================================
