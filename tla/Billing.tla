------------------------------- MODULE Billing -------------------------------
(***************************************************************************)
(* routes/billing.js: createInvoice, which reads and validates outside the *)
(* transaction (SubmitInvoice) and then writes invoice, movements, stock,  *)
(* ledger and credit note in one transaction (CommitInvoice), and the      *)
(* handler that marks a quotation as converted.                            *)
(*                                                                         *)
(* The transaction is one step because its first statement locks the       *)
(* series' counter row until it ends: two sales never interleave, and the  *)
(* statements that other transactions interleave with are single guarded   *)
(* or relative updates.                                                    *)
(***************************************************************************)
EXTENDS Shop

CONSTANTS
    CreditAmounts,   \* the credit a request may ask for
    AppliedAmounts,  \* the store credit a request may apply, 0 for none
    InvoiceKinds,    \* the kinds of invoice a request may ask for
    MaxNotes         \* bound on the number of credit notes

ASSUME BillingAssumption ==
    /\ CreditAmounts \subseteq Nat
    /\ AppliedAmounts \subseteq Nat
    /\ InvoiceKinds \subseteq Kinds
    /\ MaxNotes \in Nat

(* The request body.  `linked' is partyId; `walkin' is the customer that   *)
(* name, phone and vehicle identify when no partyId is given; `note' is    *)
(* appliedCreditNoteId, 0 for none.                                        *)
InvoiceReq ==
    [op : {"invoice"}, kind : InvoiceKinds, cart : Carts,
     linked : Customers, walkin : Customers,
     credit : CreditAmounts, note : 0..MaxNotes, applied : AppliedAmounts]

SeriesOf(kind) == IF kind = "ESTIMATE" THEN "EST" ELSE "INV"

MoveTypeOf(kind) ==
    CASE kind = "RETURN" -> "RETURN_OUT"
      [] kind = "ESTIMATE" -> "ESTIMATE"
      [] OTHER -> "SALE"

(* A walk-in is saved as a customer, or matched with one by phone, unless  *)
(* the invoice is an estimate or a return.                                 *)
ResolvedParty(q) ==
    IF q.linked # NoParty THEN q.linked
    ELSE IF q.kind = "SALE" THEN q.walkin ELSE NoParty

(* The pre-flight stock check: early feedback on a read no lock protects.  *)
PreflightStock(q) == q.kind # "ESTIMATE" => Covers(stockQty, q.cart)

(* The credit note as read before the transaction.  The customers are      *)
(* compared only when both are known, so neither a walk-in nor a note      *)
(* without a customer is ever refused.                                     *)
PreflightNote(q) ==
    q.note # 0 =>
        /\ q.note <= Len(notes)
        /\ \/ q.linked = NoParty
           \/ notes[q.note].party = NoParty
           \/ q.linked = notes[q.note].party
        /\ q.applied > 0
        /\ q.applied <= notes[q.note].remaining + Cent

(* Cash and UPI make up the rest, to within one rupee of the total.        *)
PaymentBreakdown(q) ==
    /\ q.credit <= InvoiceTotal[q.cart] + Cent
    /\ q.applied > 0 => q.credit + q.applied <= InvoiceTotal[q.cart] + Rupee

SubmitInvoice(r) ==
    /\ req[r].op = "idle"
    /\ Len(invoices) < MaxInvoices
    /\ \E q \in InvoiceReq :
        /\ q.linked # NoParty => q.walkin = NoParty
        /\ q.note = 0 <=> q.applied = 0
        /\ PreflightStock(q)
        /\ PaymentBreakdown(q)
        /\ PreflightNote(q)
        /\ req' = [req EXCEPT ![r] = q]
    /\ UNCHANGED tables

StockGuard_PreflightOnly(q) == TRUE
StockAfter_EstimateSells(q) ==
    IF q.kind = "RETURN" THEN Plus(stockQty, q.cart) ELSE Minus(stockQty, q.cart)
Redeem_StaleStatus(note, amount) ==
    [note EXCEPT !.remaining = @ - amount,
                 !.status = IF note.remaining <= Cent
                            THEN "FULLY_USED" ELSE "PARTIALLY_USED"]

(* updateMany ... WHERE stockQty >= qty, for every line or for none.       *)
StockGuard(q) == q.kind = "SALE" => Covers(stockQty, q.cart)

(* updateMany ... WHERE remainingBalance >= appliedAmt.                    *)
NoteGuard(q) == q.note # 0 => notes[q.note].remaining >= q.applied

StockAfter(q) ==
    CASE q.kind = "RETURN" -> Plus(stockQty, q.cart)
      [] q.kind = "SALE" -> Minus(stockQty, q.cart)
      [] OTHER -> stockQty

Redeem(note, amount) ==
    [note EXCEPT !.remaining = @ - amount,
                 !.status = IF note.remaining - amount <= Cent
                            THEN "FULLY_USED" ELSE "PARTIALLY_USED"]

NewInvoice(q) ==
    [series   |-> SeriesOf(q.kind),
     number   |-> NextSeq(SeriesOf(q.kind)),
     kind     |-> q.kind,
     party    |-> ResolvedParty(q),
     cart     |-> q.cart,
     credit   |-> q.credit,
     note     |-> q.note,
     applied  |-> q.applied,
     status   |-> IF q.credit > 0 THEN "CREDIT" ELSE "PAID",
     returned |-> Nothing]

CommitInvoice(r) ==
    LET q == req[r] IN
    /\ q.op = "invoice"
    /\ Len(invoices) < MaxInvoices
    /\ StockGuard(q)
    /\ NoteGuard(q)
    /\ counters' = Bump(SeriesOf(q.kind))
    /\ invoices' = Append(invoices, NewInvoice(q))
    /\ moved' = [moved EXCEPT ![MoveTypeOf(q.kind)] = Plus(@, q.cart)]
    /\ stockQty' = StockAfter(q)
    /\ outstanding' = WriteLedger(ResolvedParty(q), q.credit + q.applied, 0)
    /\ notes' = IF q.note = 0 THEN notes
                ELSE [notes EXCEPT ![q.note] = Redeem(@, q.applied)]
    /\ req' = [req EXCEPT ![r] = Idle]
    /\ UNCHANGED damagedQty

(* PATCH /invoice/:id/status: only an estimate, and only to CONVERTED.     *)
ConvertEstimate(i) ==
    /\ invoices[i].kind = "ESTIMATE"
    /\ invoices' = [invoices EXCEPT ![i].status = "CONVERTED"]
    /\ UNCHANGED <<stockQty, damagedQty, moved, counters, notes, outstanding, req>>

BillingNext ==
    \/ \E r \in Reqs : SubmitInvoice(r) \/ CommitInvoice(r)
    \/ \E i \in 1..Len(invoices) : ConvertEstimate(i)
=============================================================================
