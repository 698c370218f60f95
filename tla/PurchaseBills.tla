---------------------------- MODULE PurchaseBills ----------------------------
(***************************************************************************)
(* routes/purchaseBills.js: a supplier's PDF becomes a bill, and the       *)
(* reviewed bill is imported, one transaction per item, so that one bad    *)
(* item does not undo the others.                                          *)
(***************************************************************************)
EXTENDS Purchases

CONSTANTS
    InvoiceNumbers,   \* the numbers suppliers put on their invoices
    MaxBills,         \* bound on the number of bills
    MaxSources        \* bound on the number of imported items

ASSUME BillsAssumption ==
    /\ MaxBills \in Nat
    /\ MaxSources \in Nat

(* `lostCommit' is no column: it keeps that an item of the bill's import   *)
(* was counted as imported and then failed to commit.                      *)
Bill ==
    [number : InvoiceNumbers, status : {"PENDING_REVIEW", "IMPORTED"},
     lostCommit : BOOLEAN]

(* A movement of type PURCHASE or OPENING: it carries the bill's number,   *)
(* not its id.  `returned' sums the purchase_return_items that name it.    *)
Source == [number : InvoiceNumbers, part : Parts, qty : Nat, returned : Nat]

BillReq ==
    [op : {"extract"}, number : InvoiceNumbers]
    \cup [op : {"import"}, bill : Nat, cart : Carts,
          todo : SUBSET Parts, imported : BOOLEAN]

(* POST /extract: no bill has the number yet.  Otherwise the handler only  *)
(* answers with the bill there is.  The archive upload follows.            *)
BeginExtract(c) ==
    /\ req[c].op = "idle"
    /\ Len(bills) < MaxBills
    /\ \E n \in InvoiceNumbers :
        /\ \A b \in 1..Len(bills) : bills[b].number # n
        /\ req' = [req EXCEPT ![c] = [op |-> "extract", number |-> n]]
    /\ UNCHANGED tables

CreateBill(c) ==
    /\ req[c].op = "extract"
    /\ Len(bills) < MaxBills
    /\ bills' = Append(bills, [number |-> req[c].number, status |-> "PENDING_REVIEW",
                              lostCommit |-> FALSE])
    /\ Done(c)
    /\ UNCHANGED <<stockQty, moved, orderTables, sources, returnTables>>

(* POST /:id/import: the bill is not imported yet, and the items are those *)
(* the owner verified, invalid ones left out.                              *)
BeginImport(c, b) ==
    /\ req[c].op = "idle"
    /\ bills[b].status # "IMPORTED"
    /\ \E cart \in Carts :
        req' = [req EXCEPT ![c] =
                  [op |-> "import", bill |-> b, cart |-> cart,
                   todo |-> {p \in Parts : cart[p] > 0}, imported |-> FALSE]]
    /\ UNCHANGED tables

NewSource(q, p) ==
    [number |-> bills[q.bill].number, part |-> p, qty |-> q.cart[p], returned |-> 0]

Only(p, n) == [Nothing EXCEPT ![p] = n]

(* One item: stock and movement in a transaction of its own.               *)
ImportItem(c, p) ==
    LET q == req[c] IN
    /\ q.op = "import"
    /\ p \in q.todo
    /\ Len(sources) < MaxSources
    /\ Receive(Only(p, q.cart[p]))
    /\ sources' = Append(sources, NewSource(q, p))
    /\ req' = [req EXCEPT ![c].todo = @ \ {p}, ![c].imported = TRUE]
    /\ UNCHANGED <<orderTables, bills, returnTables>>

(* A statement of its transaction fails, the loop goes on.                 *)
SkipItem(c, p) ==
    /\ req[c].op = "import"
    /\ p \in req[c].todo
    /\ req' = [req EXCEPT ![c].todo = @ \ {p}]
    /\ UNCHANGED tables

(* All its statements succeed, and with the last the item is counted; then *)
(* COMMIT fails, or Prisma finds the transaction out of time.              *)
LoseItem(c, p) ==
    /\ req[c].op = "import"
    /\ p \in req[c].todo
    /\ req' = [req EXCEPT ![c].todo = @ \ {p}, ![c].imported = TRUE]
    /\ bills' = [bills EXCEPT ![req[c].bill].lostCommit = TRUE]
    /\ UNCHANGED <<stockQty, moved, orderTables, sources, returnTables>>

Outcome_AlwaysImported(bill, imported) == [bill EXCEPT !.status = "IMPORTED"]

(* The bill counts as imported if any item was counted.                    *)
Outcome(bill, imported) ==
    IF imported THEN [bill EXCEPT !.status = "IMPORTED"] ELSE bill

FinishImport(c) ==
    LET q == req[c] IN
    /\ q.op = "import"
    /\ q.todo = {}
    /\ bills' = [bills EXCEPT ![q.bill] = Outcome(@, q.imported)]
    /\ Done(c)
    /\ UNCHANGED <<stockQty, moved, orderTables, sources, returnTables>>

BillsNext ==
    \E c \in Clients :
        \/ BeginExtract(c) \/ CreateBill(c) \/ FinishImport(c)
        \/ \E b \in 1..Len(bills) : BeginImport(c, b)
        \/ \E p \in Parts : ImportItem(c, p) \/ SkipItem(c, p) \/ LoseItem(c, p)
=============================================================================
