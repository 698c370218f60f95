------------------------------ MODULE Purchases ------------------------------
(***************************************************************************)
(* The tables of one shop behind what it buys: purchase orders, bills of   *)
(* suppliers, the movements a bill's import wrote, returns to the supplier *)
(* and the supplier's ledger, all over the shop's stock.                   *)
(*                                                                         *)
(* One supplier stands for all: no handler relates two.  A unit costs one  *)
(* rupee, so the value of a return is its quantity.  A name with an        *)
(* underscore is a mutated form of the definition before the underscore.   *)
(***************************************************************************)
EXTENDS Integers, Sequences

CONSTANTS
    Parts,       \* inventory rows of the shop
    Clients,     \* requests being served at once
    Carts,       \* quantities that an order or a bill may list
    MaxSold      \* bound on the units of a part that are sold

Quantities == [Parts -> Nat]

ASSUME PurchasesAssumption ==
    /\ Carts \subseteq Quantities
    /\ MaxSold \in Nat

VARIABLES
    stockQty,    \* shop_inventory.stock_qty
    moved,       \* movements.qty summed by type and part
    orders,      \* purchase_orders, each with its items
    bills,       \* purchase_bills
    sources,     \* the movements of bill imports, one by one
    returns,     \* purchase_returns
    owed,        \* parties.outstanding of the supplier
    applied,     \* the SUPPLIER_CREDIT_APPLIED rows of its ledger, summed
    req          \* what each request being served has read so far

orderTables == <<orders>>
billTables == <<bills, sources>>
returnTables == <<returns, owed, applied>>
tables == <<stockQty, moved, orderTables, billTables, returnTables>>
vars == <<tables, req>>

MoveTypes == {"PURCHASE", "PURCHASE_RETURN_OUT", "SALE"}
Nothing == [p \in Parts |-> 0]
Plus(a, b) == [p \in Parts |-> a[p] + b[p]]
Covers(a, b) == \A p \in Parts : b[p] <= a[p]
Idle == [op |-> "idle"]

Init ==
    /\ stockQty = Nothing
    /\ moved = [t \in MoveTypes |-> Nothing]
    /\ orders = <<>>
    /\ bills = <<>>
    /\ sources = <<>>
    /\ returns = <<>>
    /\ owed = 0
    /\ applied = 0
    /\ req = [c \in Clients |-> Idle]

Receive_NoMovement(qty) ==
    /\ stockQty' = Plus(stockQty, qty)
    /\ UNCHANGED moved

(* Goods come in: stock and the PURCHASE movement that explains it.        *)
Receive(qty) ==
    /\ stockQty' = Plus(stockQty, qty)
    /\ moved' = [moved EXCEPT !["PURCHASE"] = Plus(@, qty)]

LedgerBalance_Swapped(debit, credit) == owed - debit + credit

(* writeLedgerEntry in parties.js: a debit is what the supplier owes more. *)
LedgerBalance(debit, credit) == owed + debit - credit

Done(c) == req' = [req EXCEPT ![c] = Idle]

(* A request ends without (further) effect: a check fails, the email is    *)
(* refused, its transaction rolls back, or the process dies.               *)
Abandon(c) ==
    /\ req[c].op # "idle"
    /\ Done(c)
    /\ UNCHANGED tables

(* A sale of one unit: billing.js decrements only where stockQty >= qty.   *)
Sell(p) ==
    /\ stockQty[p] >= 1
    /\ moved["SALE"][p] < MaxSold
    /\ stockQty' = [stockQty EXCEPT ![p] = @ - 1]
    /\ moved' = [moved EXCEPT !["SALE"][p] = @ + 1]
    /\ UNCHANGED <<orderTables, billTables, returnTables, req>>
=============================================================================
