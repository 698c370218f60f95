---------------------------- MODULE MCProcurement ----------------------------
(* Small instances of procurement for TLC.                                 *)
EXTENDS Procurement, TLC

CONSTANTS p1, p2, c1, c2

OnePart == {p1}
One(a) == p1 :> a
OneCarts == {One(1)}
OneReceipts == {One(1)}

OneLine == {[qty |-> 1, again |-> 0]}
OneOrTwoLines == OneLine \cup {[qty |-> 2, again |-> 1]}

TwoParts == {p1, p2}
Two(a, b) == p1 :> a @@ p2 :> b
TwoCarts == {Two(1, 2)}
TwoReceipts == {Two(1, 1)}

ClientSymmetry == Permutations({c1, c2})
=============================================================================
