-------------------------------- MODULE Stock --------------------------------
(***************************************************************************)
(* The inventory screen, the marketplace and the warranty desk at work on  *)
(* the same rows, with what must be true of stock, movements, cost prices, *)
(* orders and claims.                                                      *)
(***************************************************************************)
EXTENDS InventoryDesk, Marketplace, WarrantyClaims, Functions

Next ==
    \/ InventoryNext
    \/ MarketplaceNext
    \/ WarrantyNext
    \/ \E p \in Parts : Sell(p)
    \/ \E c \in Clients : Abandon(c)

Spec == Init /\ [][Next]_vars

-----------------------------------------------------------------------------
Requests == {Idle} \cup InventoryReq \cup OrderReq \cup ClaimReq

(* What a request has read is still there: rows, orders and claims are     *)
(* never removed, and versions only grow.                                  *)
StillThere(q) ==
    /\ q.op \in {"opening", "edit", "purchase", "adjust"} => Exists(q.part)
    /\ q.op = "deduct" => q.order \in 1..Len(orders)
    /\ q.op = "claim" => q.claim \in 1..Len(claims) /\ q.version <= claims[q.claim].version

(* Every table and request has its type.  In particular no stock is ever   *)
(* negative, whatever was read before the update that takes it.            *)
TypeOK ==
    /\ row \in [Parts -> Row \cup {NoRow}]
    /\ moved \in [Parts -> Int]
    /\ orders \in Seq(Order)
    /\ claims \in Seq(Claim)
    /\ disturbed \subseteq Parts
    /\ req \in [Clients -> Requests]
    /\ \A c \in Clients : StillThere(req[c])

(* The cost price of a row lies between prices that were given, however    *)
(* stale the stock and the price are that a purchase averages with         *)
(* (inventory.js 479-489): rounding and zero stock included.               *)
CostWithinPrices ==
    \A p \in Parts :
        row[p].cost # NoPrice =>
            \E lo, hi \in Prices : lo <= row[p].cost /\ row[p].cost <= hi

(* A claim brings its replacement into stock once and takes it out once,   *)
(* and exactly when its status says so, whatever two requests about one    *)
(* claim have read (warrantyClaims.js: "Stock only moves at these two      *)
(* transitions").                                                          *)
ClaimMovesStockOnce ==
    \A n \in 1..Len(claims) :
        /\ claims[n].in = IF claims[n].status \in
                              {"REPLACEMENT_RECEIVED", "RETURNED_TO_CUSTOMER"} THEN 1 ELSE 0
        /\ claims[n].out = IF claims[n].status = "RETURNED_TO_CUSTOMER" THEN 1 ELSE 0

(* An order gives back to stock what it took from it, once at most         *)
(* (marketplace.js 728: "Restore stock on cancel (stock was decremented at *)
(* order placement)").                                                     *)
RestoredAsTaken ==
    \A o \in 1..Len(orders) :
        /\ orders[o].restored <= 1
        /\ orders[o].restored = 1 => orders[o].taken = Listed(orders[o].items)

(* The units of a part that an order holds: taken from stock and not       *)
(* restored, less than none when it restored more than it took.            *)
Held(order, p) ==
    order.items[p] * ((IF p \in order.taken THEN 1 ELSE 0) - order.restored)

HeldByOrders(p) == SumFunction([o \in 1..Len(orders) |-> Held(orders[o], p)])

(* The movements explain the stock of every part, up to what marketplace   *)
(* orders hold: sales, adjustments, purchases, bulk receipts, claims and   *)
(* corrections may interleave as they like.  What does lose the            *)
(* explanation is exactly an edit that commits over a row it did not read  *)
(* or under an old version, a new row whose request dies before its        *)
(* opening movement, and an outward adjustment of a negative quantity,     *)
(* which takes stock and records a movement that reads as stock put back   *)
(* (inventory.js 170, 231, 317-351, 796-849).                              *)
StockExplained ==
    \A p \in Parts :
        \/ p \in disturbed
        \/ \E c \in Clients : req[c].op = "opening" /\ req[c].part = p
        \/ row[p].qty + HeldByOrders(p) = moved[p]
=============================================================================
