-------------------------- MODULE MCCatalogImages --------------------------
(* A small instance of CatalogImages for TLC. *)
EXTENDS CatalogImages

CONSTANTS c1, c2

TwoConfigs == <<c1, c2>>
=============================================================================
