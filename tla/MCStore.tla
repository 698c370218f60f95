------------------------------- MODULE MCStore -------------------------------
(* Small instances of the store for TLC.                                   *)
EXTENDS Store, TLC

CONSTANTS p1, p2, r1, r2

TwoParts == {p1, p2}
Qty(a, b) == p1 :> a @@ p2 :> b
TwoPartsTotal(cart) == 2 * cart[p1] + cart[p2]
TwoPartsOpening == Qty(2, 1)
TwoPartsCarts == {Qty(1, 0), Qty(1, 1)}
TwoPartsCartTotal == [c \in TwoPartsCarts |-> 5 * TwoPartsTotal(c)]

TwoPartsForms == {[good |-> Qty(1, 0), bad |-> Qty(0, 1)]}
TwoPartsReturnTotal == [f \in TwoPartsForms |-> 15]

OnePart == {p1}
One(a) == p1 :> a
OneOpening == One(3)
OneCarts == {One(1), One(2)}
OneCartTotal == [c \in OneCarts |-> 5 * c[p1]]

(* Each line of the invoice at most once in a return.                      *)
PlainForms == {[good |-> One(1), bad |-> One(0)],
               [good |-> One(0), bad |-> One(1)],
               [good |-> One(2), bad |-> One(0)]}

(* What comes back without an invoice.                                     *)
OneBack == {[good |-> One(1), bad |-> One(0)]}

FormTotal(forms) == [f \in forms |-> 5 * (f.good[p1] + f.bad[p1])]
PlainReturnTotal == FormTotal(PlainForms)

ReqSymmetry == Permutations({r1, r2})
=============================================================================
