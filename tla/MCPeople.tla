------------------------------ MODULE MCPeople ------------------------------
(* Small instances of people for TLC.                                      *)
EXTENDS People, TLC

CONSTANTS c1, c2, s1, s2

ClientSymmetry == Permutations({c1, c2})
Symmetry == ClientSymmetry \cup Permutations({s1, s2})
=============================================================================
