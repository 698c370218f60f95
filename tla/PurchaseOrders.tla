--------------------------- MODULE PurchaseOrders ---------------------------
(***************************************************************************)
(* routes/purchaseOrders.js: orders are drafted, edited, approved, sent,   *)
(* received and cancelled.  Every handler reads the order, awaits (the     *)
(* items' inventory rows, the PDF, the supplier's mail server) and then    *)
(* updates it by id, without looking at its status again.                  *)
(***************************************************************************)
EXTENDS Purchases

CONSTANTS
    Receipts,    \* the quantities a request may report as received
    MaxOrders,   \* bound on the number of orders
    MaxEdits     \* bound on the number of edits of an order

ASSUME OrdersAssumption ==
    /\ Receipts \subseteq Quantities
    /\ MaxOrders \in Nat
    /\ MaxEdits \in Nat

(* PENDING has the rules of SENT and no handler sets it.                   *)
VALID_TRANSITIONS ==
    [DRAFT     |-> {"APPROVED", "CANCELLED"},
     APPROVED  |-> {"SENT", "CANCELLED"},
     SENT      |-> {"RECEIVED", "PARTIAL", "CANCELLED"},
     PARTIAL   |-> {"RECEIVED", "CANCELLED"},
     RECEIVED  |-> {},
     CANCELLED |-> {}]

OrderStatuses == DOMAIN VALID_TRANSITIONS

(* `edition' tells the items of an order from those that an edit replaced: *)
(* they have other ids.                                                    *)
Order ==
    [status : OrderStatuses, edition : Nat, ordered : Carts, received : Quantities]

Draft(cart) ==
    [status |-> "DRAFT", edition |-> 0, ordered |-> cart, received |-> Nothing]

OrderReq ==
    [op : {"edit"}, order : Nat, cart : Carts]
    \cup [op : {"status"}, order : Nat, edition : Nat, to : OrderStatuses,
          receipt : Receipts \cup {Nothing}]
    \cup [op : {"send"}, order : Nat]

CreateOrder(cart) ==
    /\ Len(orders) < MaxOrders
    /\ orders' = Append(orders, Draft(cart))
    /\ UNCHANGED <<stockQty, moved, billTables, returnTables, req>>

(* POST /:id/clone.                                                        *)
CloneOrder(o) ==
    /\ Len(orders) < MaxOrders
    /\ orders' = Append(orders, Draft(orders[o].ordered))
    /\ UNCHANGED <<stockQty, moved, billTables, returnTables, req>>

BeginEdit(c, o) ==
    /\ req[c].op = "idle"
    /\ orders[o].status = "DRAFT"
    /\ orders[o].edition < MaxEdits
    /\ \E cart \in Carts :
        req' = [req EXCEPT ![c] = [op |-> "edit", order |-> o, cart |-> cart]]
    /\ UNCHANGED tables

(* deleteMany and create: new items, of which nothing has been received.   *)
CommitEdit(c) ==
    /\ req[c].op = "edit"
    /\ LET o == req[c].order IN
       orders' = [orders EXCEPT ![o].edition = @ + 1,
                                ![o].ordered = req[c].cart,
                                ![o].received = Nothing]
    /\ Done(c)
    /\ UNCHANGED <<stockQty, moved, billTables, returnTables>>

(* PATCH /:id/status up to its transaction: the transition is legal from   *)
(* the status read, and receipts name items of the order.                  *)
BeginStatus(c, o) ==
    /\ req[c].op = "idle"
    /\ \E to \in VALID_TRANSITIONS[orders[o].status], receipt \in Receipts \cup {Nothing} :
        /\ receipt # Nothing => to \in {"RECEIVED", "PARTIAL"}
        /\ \A p \in Parts : receipt[p] > 0 => orders[o].ordered[p] > 0
        /\ req' = [req EXCEPT ![c] =
                     [op |-> "status", order |-> o, edition |-> orders[o].edition,
                      to |-> to, receipt |-> receipt]]
    /\ UNCHANGED tables

ReceiptFits_Unchecked(order, receipt) == TRUE

(* CHECK (received_qty <= ordered_qty): the transaction fails otherwise.   *)
ReceiptFits(order, receipt) == Covers(order.ordered, Plus(order.received, receipt))

SameItems(order, q) == order.edition = q.edition

(* The transaction of PATCH /:id/status.  An item that an edit replaced is *)
(* not found, which fails it; the order's status is written as requested.  *)
CommitStatus(c) ==
    LET q == req[c]
        order == orders[q.order]
    IN
    /\ q.op = "status"
    /\ q.receipt # Nothing =>
        /\ SameItems(order, q)
        /\ ReceiptFits(order, q.receipt)
    /\ orders' = [orders EXCEPT ![q.order].status = q.to,
                                ![q.order].received = Plus(@, q.receipt)]
    /\ Receive(q.receipt)
    /\ Done(c)
    /\ UNCHANGED <<billTables, returnTables>>

(* POST /:id/send-email: an approved order, then the PDF and the mail.     *)
BeginSend(c, o) ==
    /\ req[c].op = "idle"
    /\ orders[o].status = "APPROVED"
    /\ req' = [req EXCEPT ![c] = [op |-> "send", order |-> o]]
    /\ UNCHANGED tables

FinishSend(c) ==
    /\ req[c].op = "send"
    /\ orders' = [orders EXCEPT ![req[c].order].status = "SENT"]
    /\ Done(c)
    /\ UNCHANGED <<stockQty, moved, billTables, returnTables>>

OrdersNext ==
    \/ \E cart \in Carts : CreateOrder(cart)
    \/ \E o \in 1..Len(orders) :
        \/ CloneOrder(o)
        \/ \E c \in Clients : BeginEdit(c, o) \/ BeginStatus(c, o) \/ BeginSend(c, o)
    \/ \E c \in Clients : CommitEdit(c) \/ CommitStatus(c) \/ FinishSend(c)
=============================================================================
