-------------------------------- MODULE Store --------------------------------
(***************************************************************************)
(* The billing desk and the returns desk over the shop's shared tables.    *)
(***************************************************************************)
EXTENDS Billing, SalesReturns, Functions

ASSUME StoreAssumption == MaxReturns <= MaxNotes

Init == TablesInit

Next ==
    \/ BillingNext
    \/ ReturnsNext
    \/ \E r \in Reqs : Rollback(r)

Spec == Init /\ [][Next]_vars

-----------------------------------------------------------------------------
(* Every table and every request has its type: in particular no quantity   *)
(* in stock and no balance of a credit note is ever negative, although the *)
(* checks that read them run before the transaction that spends them       *)
(* (billing.js updateMany guards, the CHECK on shop_inventory.stock_qty).  *)
TypeOK ==
    /\ stockQty \in Quantities
    /\ damagedQty \in Quantities
    /\ moved \in [MoveTypes -> Quantities]
    /\ counters \in [Series -> Nat]
    /\ invoices \in Seq(Invoice)
    /\ notes \in Seq(CreditNote)
    /\ Len(notes) <= MaxReturns
    /\ outstanding \in [Parties -> Int]
    /\ req \in [Reqs -> {Idle} \cup InvoiceReq \cup ReturnReq]
    /\ \A r \in Reqs :
        /\ req[r].op = "return" => req[r].invoice \in 1..Len(invoices)
        /\ req[r].op = "invoice" => req[r].note <= Len(notes)

(* The stock of every part is what its movements say: what was opened with *)
(* and what came back, less what was sold.  A sale that fails on one of    *)
(* its lines, and an estimate, move nothing (billing.js createInvoice,     *)
(* salesReturns.js).                                                       *)
StockMatchesMovements ==
    \A p \in Parts :
        /\ stockQty[p] = moved["OPENING"][p] + moved["SALES_RETURN_IN"][p]
                         + moved["RETURN_OUT"][p] - moved["SALE"][p]
        /\ damagedQty[p] = moved["SALES_RETURN_DAMAGED"][p]

(* The tax-invoice series, the estimate series and the credit-note series  *)
(* each run 1, 2, 3, ... without a gap and without a repeat: a             *)
(* transaction that rolls back gives its number back, and no estimate      *)
(* takes a tax-invoice number (billing.js, comment at lines 264-268).      *)
InvoiceSeriesGapFree ==
    \A s \in {"INV", "EST"} :
        \A n \in 1..counters[s] :
            \E i \in 1..Len(invoices) :
                invoices[i].series = s /\ invoices[i].number = n

InvoiceNumbersUnique ==
    \A i, j \in 1..Len(invoices) :
        /\ invoices[i].series = invoices[j].series
        /\ invoices[i].number = invoices[j].number
        => i = j

NoteSeriesGapFree ==
    /\ counters["CN"] = Len(notes)
    /\ counters["RET"] = Len(notes)
    /\ \A n \in 1..Len(notes) : notes[n].number = n

SeriesContinuous ==
    InvoiceSeriesGapFree /\ InvoiceNumbersUnique /\ NoteSeriesGapFree

(* However many returns race on one invoice, no more units of a line come  *)
(* back than were sold on it (salesReturns.js lines 162-182).              *)
ReturnedWithinSold ==
    \A i \in 1..Len(invoices) : Covers(invoices[i].cart, invoices[i].returned)

(* A credit note's balance and status tell one story: it is unused and     *)
(* whole, partly used, used up but for a rest too small to count, or was   *)
(* paid out in cash and holds nothing; however many invoices try to redeem *)
(* it at once (billing.js lines 486-500).                                  *)
NoteBalanceCoherent ==
    \A n \in 1..Len(notes) :
        LET note == notes[n] IN
        /\ note.remaining <= note.total
        /\ note.status = "REFUNDED" => note.remaining = 0
        /\ note.status = "FULLY_USED" => note.remaining <= Cent
        /\ note.status = "UNUSED" => note.remaining = note.total
        /\ note.status = "PARTIALLY_USED" => note.remaining > Cent

(* A note that was refunded in cash is never spent as store credit as      *)
(* well, and a balance never grows back.                                   *)
NotesOnlySpent ==
    [][\A n \in 1..Len(notes) :
          /\ notes'[n].remaining <= notes[n].remaining
          /\ notes[n].status = "REFUNDED" => notes'[n] = notes[n]]_vars
-----------------------------------------------------------------------------
(* What an invoice put on its party's account: the part on credit and the  *)
(* part paid with store credit; and what a note took off it.               *)
Debited(inv, party) == IF inv.party = party THEN inv.credit + inv.applied ELSE 0

Credited(note, party) ==
    IF note.party = party /\ note.status # "REFUNDED" THEN note.total ELSE 0

DocumentBalance(party) ==
    SumFunction([i \in 1..Len(invoices) |-> Debited(invoices[i], party)])
    - SumFunction([n \in 1..Len(notes) |-> Credited(notes[n], party)])

(* A customer's outstanding balance is explained by the customer's own     *)
(* documents: every credit sale, redemption and store-credit return is     *)
(* posted once, a refund in cash never, and a sale that rolls back leaves  *)
(* no debit behind (billing.js writeLedgerDebit, parties.js                *)
(* writeLedgerEntry).                                                      *)
LedgerMatchesDocuments ==
    \A party \in Parties : outstanding[party] = DocumentBalance(party)

(* A note's balance is what the sales that name it left of it: no race     *)
(* redeems it twice, a sale that rolls back redeems nothing, one paid out  *)
(* in cash is redeemed by none, and an exchange that stops after its       *)
(* return leaves the note "available to apply on a follow-up sale"         *)
(* (billing.js lines 486-500, exchanges.js line 109).                      *)
Redeemed(inv, n) == IF inv.note = n THEN inv.applied ELSE 0

NoteBalanceExplained ==
    \A n \in 1..Len(notes) :
        notes[n].remaining =
            (IF notes[n].status = "REFUNDED" THEN 0 ELSE notes[n].total)
            - SumFunction([i \in 1..Len(invoices) |-> Redeemed(invoices[i], n)])

(* What the customer of a sale still has of it; and what documents that    *)
(* handed nothing out have brought in: a return invoice takes its goods    *)
(* from nobody in particular, and a return is accepted against it, and     *)
(* against a quotation, as against a sale (salesReturns.js line 133).      *)
Kept(inv, p) == IF inv.kind = "SALE" THEN inv.cart[p] - inv.returned[p] ELSE 0

BroughtIn(inv, p) ==
    (IF inv.kind = "RETURN" THEN inv.cart[p] ELSE 0)
    + (IF inv.kind = "SALE" THEN 0 ELSE inv.returned[p])

HandedOut(p) ==
    SumFunction([i \in 1..Len(invoices) |-> Kept(invoices[i], p) - BroughtIn(invoices[i], p)])

(* Goods that came in as returns without an invoice.                       *)
WalkedIn(p) ==
    moved["SALES_RETURN_IN"][p] + moved["SALES_RETURN_DAMAGED"][p]
    - SumFunction([i \in 1..Len(invoices) |-> invoices[i].returned[p]])

(* Every unit is on the shelf, in the damaged bin or with the customer of  *)
(* a sale, and none of the three is ever less than nothing: sales that     *)
(* race never hand out a unit that is not there, and returns that race     *)
(* never bring back more of a sale than its customer has.  Units come from *)
(* nowhere only in the three ways named above: a walk-in, a return invoice *)
(* and a return against a document that was no sale (billing.js            *)
(* createInvoice, salesReturns.js).                                        *)
GoodsConserved ==
    \A p \in Parts :
        /\ stockQty[p] >= 0 /\ damagedQty[p] >= 0 /\ WalkedIn(p) >= 0
        /\ \A i \in 1..Len(invoices) : Kept(invoices[i], p) >= 0
        /\ stockQty[p] + damagedQty[p] + HandedOut(p) = Opening[p] + WalkedIn(p)

(* A quotation "must not touch stock" (billing.js line 418): nothing comes *)
(* back of what was never sold.                                            *)
OnlySalesComeBack ==
    \A i \in 1..Len(invoices) : invoices[i].kind # "SALE" => invoices[i].returned = Nothing

-----------------------------------------------------------------------------
(* jobs/workers/reconciliation.worker.js: the stock that the nightly job   *)
(* computes from the movements, with the sign it gives each type.          *)
LedgerQty(p) ==
    moved["OPENING"][p] - moved["SALE"][p] - moved["RETURN_OUT"][p]

(* The nightly job finds no drift on a shop whose stock was only changed   *)
(* through invoices and returns.                                           *)
NoDrift == \A p \in Parts : stockQty[p] = LedgerQty(p)
=============================================================================
