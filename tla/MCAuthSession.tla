--------------------------- MODULE MCAuthSession ---------------------------
(* A small instance of AuthSession for TLC. *)
EXTENDS AuthSession, TLC

CONSTANTS r1, r2

(* Requests are alike. *)
Alike == Permutations(Requests)
=============================================================================
