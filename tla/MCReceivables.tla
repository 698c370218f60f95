---------------------------- MODULE MCReceivables ----------------------------
(* Small instances of the receivables for TLC.                             *)
EXTENDS Receivables, TLC

CONSTANTS i1, i2, a1, c1, c2, c3

(* One invoice of a customer and one of a walk-in, both wholly on credit.  *)
WhollyOnCredit ==
    i1 :> [total |-> 2, credit |-> 2, party |-> a1]
    @@ i2 :> [total |-> 2, credit |-> 2, party |-> NoParty]

ClientSymmetry == Permutations({c1, c2, c3})
=============================================================================
