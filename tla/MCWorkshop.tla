------------------------------ MODULE MCWorkshop ------------------------------
(* Small instances of the workshop for TLC.                                *)
EXTENDS Workshop, TLC

CONSTANTS c1, c2, p1, b1

ClientSymmetry == Permutations({c1, c2})
=============================================================================
