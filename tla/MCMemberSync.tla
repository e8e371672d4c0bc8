---------------------------- MODULE MCMemberSync ----------------------------
(* A small instance of MemberSync for TLC. *)
EXTENDS MemberSync

TwoMembers == <<[member |-> 1, written |-> 0], [member |-> 2, written |-> 0]>>
=============================================================================
