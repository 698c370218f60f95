----------------------------- MODULE Marketplace -----------------------------
(***************************************************************************)
(* routes/marketplace.js: orders of one shop.  Placing one is not a        *)
(* transaction: the stock of every item is checked, the order is inserted, *)
(* and then each item is deducted by an update of its own.                 *)
(***************************************************************************)
EXTENDS Stockroom

CONSTANTS
    Baskets,     \* the items an order may list: quantities of parts
    OrderSteps,  \* the statuses besides CANCELLED that requests ask for
    MaxOrders,   \* bound on the number of orders
    MaxRestored  \* bound on the times one order is cancelled

Statuses == {"PENDING", "CONFIRMED", "PACKED", "SHIPPED", "DELIVERED", "CANCELLED", "RETURNED"}

ASSUME MarketplaceAssumption ==
    /\ Baskets \subseteq Quantities
    /\ OrderSteps \subseteq Statuses \ {"CANCELLED"}
    /\ MaxOrders \in Nat
    /\ MaxRestored \in Nat

(* The payment's own status and the payout a delivery schedules are left   *)
(* out: nothing is decided by them.                                        *)
Order ==
    [items : Quantities, status : Statuses,
     taken : SUBSET Parts,    \* history: items whose stock was deducted
     restored : Nat]          \* history: times the items went back to stock

OrderReq ==
    [op : {"order"}, items : Baskets]
    \cup [op : {"deduct"}, order : Nat]

Listed(items) == {p \in Parts : items[p] > 0}

(* POST /orders, the check of each item's stock.                           *)
BeginOrder(c) ==
    \E items \in Baskets :
        /\ req[c].op = "idle"
        /\ \A p \in Listed(items) : Exists(p) /\ row[p].qty >= items[p]
        /\ req' = [req EXCEPT ![c] = [op |-> "order", items |-> items]]
        /\ UNCHANGED tables

CreateOrder(c) ==
    /\ req[c].op = "order"
    /\ Len(orders) < MaxOrders
    /\ orders' = Append(orders, [items |-> req[c].items, status |-> "PENDING",
                                 taken |-> {}, restored |-> 0])
    /\ req' = [req EXCEPT ![c] = [op |-> "deduct", order |-> Len(orders) + 1]]
    /\ UNCHANGED <<row, moved, claims, disturbed>>

(* One item's update; when CHECK (stock_qty >= 0) refuses it, the request  *)
(* fails and the order stays (Abandon).                                    *)
DeductItem(c) ==
    /\ req[c].op = "deduct"
    /\ \E p \in Listed(orders[req[c].order].items) \ orders[req[c].order].taken :
        /\ Shift(p, -orders[req[c].order].items[p])
        /\ orders' = [orders EXCEPT ![req[c].order].taken = @ \cup {p}]
    /\ UNCHANGED <<moved, claims, disturbed, req>>

(* The answer: every item has been deducted.                               *)
AcceptOrder(c) ==
    /\ req[c].op = "deduct"
    /\ Listed(orders[req[c].order].items) \subseteq orders[req[c].order].taken
    /\ Done(c)
    /\ UNCHANGED tables

(* PUT /orders/:id/status, whatever the status was.  What it reads of the  *)
(* order first, its items and its total, never changes.                    *)
SetStatus(o, status) ==
    /\ orders' = [orders EXCEPT ![o].status = status]
    /\ UNCHANGED <<row, moved, claims, disturbed, req>>

CancelOrder(o) ==
    /\ orders[o].restored < MaxRestored
    /\ \A p \in Parts : row[p].qty + orders[o].items[p] <= MaxStock
    /\ row' = [p \in Parts |-> [row[p] EXCEPT !.qty = @ + orders[o].items[p]]]
    /\ orders' = [orders EXCEPT ![o].status = "CANCELLED", ![o].restored = @ + 1]
    /\ UNCHANGED <<moved, claims, disturbed, req>>

(* PUT /orders/:id/payment: a payment confirms the order, also one that    *)
(* was cancelled or delivered before.                                      *)
PayOrder(o) ==
    /\ orders' = [orders EXCEPT ![o].status = "CONFIRMED"]
    /\ UNCHANGED <<row, moved, claims, disturbed, req>>

MarketplaceNext ==
    \/ \E c \in Clients : BeginOrder(c) \/ CreateOrder(c) \/ DeductItem(c) \/ AcceptOrder(c)
    \/ \E o \in 1..Len(orders) :
        \/ \E status \in OrderSteps : SetStatus(o, status)
        \/ CancelOrder(o)
        \/ PayOrder(o)
=============================================================================
