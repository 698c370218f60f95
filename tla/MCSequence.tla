----------------------------- MODULE MCSequence -----------------------------
(* Small instances of the numbering for TLC.                               *)
EXTENDS Sequence

CONSTANTS c1, c2, c3

AllSeries == {"INV", "RET", "CN", "JOB"}
TaxOnly == {"INV", "RET", "CN"}
StoreRows == {"clutch", "brake"}

(* createInvoice locks the invoice counter, the stock of its lines in the  *)
(* order of the request; createSalesReturn the return counter, the stock   *)
(* of its lines in the order of its request, and the credit-note counter.  *)
Sale == <<"INV", "clutch", "brake">>
Return == <<"RET", "brake", "clutch", "CN">>
StorePrograms == {Sale, Return}
=============================================================================
