------------------------------- MODULE MCStock -------------------------------
(* Small instances of the stockroom for TLC.                               *)
EXTENDS Stock, TLC

CONSTANTS p1, c1, c2

EitherSign == {-1, 1}
OneUnit == {p1 :> 1}
=============================================================================
