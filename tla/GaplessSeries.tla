---------------------------- MODULE GaplessSeries ----------------------------
(***************************************************************************)
(* What GST law and the comment at billing.js 264-268 ask of a document    *)
(* series: its documents carry the numbers 1, 2, 3, ... in the order they  *)
(* appear.  Documents of several series may appear at once, as a sales     *)
(* return and its credit note do.                                          *)
(***************************************************************************)
EXTENDS Naturals, Sequences

CONSTANT Series

VARIABLE issued     \* the numbers on the documents of each series

Init == issued = [s \in Series |-> <<>>]

Issue(S) ==
    issued' = [s \in Series |-> IF s \in S
                                THEN Append(issued[s], Len(issued[s]) + 1)
                                ELSE issued[s]]

Next == \E S \in (SUBSET Series) \ {{}} : Issue(S)

Spec == Init /\ [][Next]_issued

(* The n-th document of a series carries the number n.                     *)
Consecutive ==
    \A s \in Series : \A n \in 1..Len(issued[s]) : issued[s][n] = n
=============================================================================
