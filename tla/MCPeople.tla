------------------------------ MODULE MCPeople ------------------------------
(* People for TLC: the members are alike. *)
EXTENDS People

MemberSymmetry == Permutations(Members)
=============================================================================
