----------------------------- MODULE Procurement -----------------------------
(***************************************************************************)
(* Orders, bills and returns to the supplier over the shop's stock.        *)
(***************************************************************************)
EXTENDS PurchaseOrders, PurchaseReturns, Functions

Next ==
    \/ OrdersNext
    \/ BillsNext
    \/ PurchaseReturnsNext
    \/ \E p \in Parts : Sell(p)
    \/ \E c \in Clients : Abandon(c)

Spec == Init /\ [][Next]_vars

-----------------------------------------------------------------------------
Requests == {Idle} \cup OrderReq \cup BillReq \cup ReturnReq

(* The rows a request has read are still there: none is ever deleted.      *)
RowsExist(q) ==
    /\ q.op \in {"edit", "status", "send"} => q.order \in 1..Len(orders)
    /\ q.op = "import" => q.bill \in 1..Len(bills)
    /\ q.op = "return" => q.source \in 1..Len(sources)
    /\ q.op = "resolve" => q.return \in 1..Len(returns)

(* Every table and request has its type; in particular the stock, which a  *)
(* sale may take between a return's request and its commit, is never       *)
(* negative (purchaseReturns.js 203-210).                                  *)
TypeOK ==
    /\ stockQty \in Quantities
    /\ moved \in [MoveTypes -> Quantities]
    /\ orders \in Seq(Order)
    /\ bills \in Seq(Bill)
    /\ sources \in Seq(Source)
    /\ returns \in Seq(PurchaseReturn)
    /\ owed \in Int
    /\ applied \in Nat
    /\ req \in [Clients -> Requests]
    /\ \A c \in Clients : RowsExist(req[c])
    /\ \A n \in 1..Len(returns) : returns[n].source \in 1..Len(sources)

(* Whatever is received, imported, sold and returned at the same time, and *)
(* however much of it is abandoned half way, the movements account for the *)
(* stock of every part.                                                    *)
StockMatchesMovements ==
    \A p \in Parts :
        stockQty[p] = moved["PURCHASE"][p] - moved["SALE"][p]
                      - moved["PURCHASE_RETURN_OUT"][p]

(* No order is received beyond what it orders, although two requests may   *)
(* each report a delivery that alone would fit.                            *)
ReceivedWithinOrdered ==
    \A o \in 1..Len(orders) : Covers(orders[o].ordered, orders[o].received)

(* However many returns race on an imported item, no more of it goes back  *)
(* to the supplier than came in, but for what requests name a second time: *)
(* nothing in the database stops those lines (purchaseReturns.js 146-179). *)
NamedAgain(s) ==
    SumFunction([n \in 1..Len(returns) |->
                    IF returns[n].source = s THEN returns[n].again ELSE 0])

ReturnedWithinImported ==
    \A s \in 1..Len(sources) : sources[s].returned <= sources[s].qty + NamedAgain(s)

(* A bill that counts as imported brought at least one item in, unless one *)
(* that was counted did not commit (purchaseBills.js 222-234).             *)
ImportedBroughtGoods ==
    \A b \in 1..Len(bills) :
        bills[b].status = "IMPORTED" /\ ~bills[b].lostCommit =>
            \E s \in 1..Len(sources) : sources[s].number = bills[b].number

(* A return is credited to the supplier's ledger at most once, whatever    *)
(* its resolution goes through, and is marked so exactly when it was       *)
(* (purchaseReturns.js: "so re-PATCHing the same return never              *)
(* double-posts").                                                         *)
CreditedOnce ==
    \A n \in 1..Len(returns) :
        returns[n].credits = IF returns[n].creditLedgerPosted THEN 1 ELSE 0

(* The supplier owes what its returns were credited with, less what was    *)
(* applied to other purchases.                                             *)
SupplierLedgerMatches ==
    owed = SumFunction([n \in 1..Len(returns) |-> returns[n].credits * returns[n].qty])
           - applied

(* Two things the code sets out to do and does not: to return no more than *)
(* is "left returnable" (purchaseReturns.js line 160), which lines of one  *)
(* request exceed, and to count a bill as imported only when it was and    *)
(* else to "tell the client clearly" (purchaseBills.js line 236), which a  *)
(* failed commit escapes.                                                  *)
NeverOverReturned ==
    \A s \in 1..Len(sources) : sources[s].returned <= sources[s].qty

ImportedHasGoods ==
    \A b \in 1..Len(bills) :
        bills[b].status = "IMPORTED" =>
            \E s \in 1..Len(sources) : sources[s].number = bills[b].number

(* A supplier's invoice is imported into inventory once                    *)
(* (purchaseBills.js: "This bill has already been imported").              *)
ImportedOnce ==
    \A s, t \in 1..Len(sources) :
        /\ sources[s].number = sources[t].number
        /\ sources[s].part = sources[t].part
        => s = t

(* A resolution is only ever replaced by a client that saw it              *)
(* (purchaseReturns.js: "version is required for optimistic concurrency"). *)
NoLostResolution ==
    [][\A n \in 1..Len(returns) :
          returns'[n].resolution # returns[n].resolution =>
             \E c \in Clients :
                /\ req[c].op = "resolve"
                /\ req[c].return = n
                /\ req[c].seen = returns[n].resolution
                /\ req[c].to = returns'[n].resolution
                /\ req'[c] = Idle]_vars

(* Orders only move along the transitions of VALID_TRANSITIONS             *)
(* (purchaseOrders.js: "Enforced state machine -- only these transitions   *)
(* are legal").                                                            *)
OnlyLegalTransitions ==
    [][\A o \in 1..Len(orders) :
          orders'[o].status # orders[o].status =>
             orders'[o].status \in VALID_TRANSITIONS[orders[o].status]]_vars
=============================================================================
