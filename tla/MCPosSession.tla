---------------------------- MODULE MCPosSession ----------------------------
(* Small instances of PosSession for TLC. *)
EXTENDS PosSession

CONSTANTS r1, r2, b1

(* Requests are alike. *)
Alike == Permutations(Requests)
=============================================================================
