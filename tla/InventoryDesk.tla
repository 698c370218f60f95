---------------------------- MODULE InventoryDesk ----------------------------
(***************************************************************************)
(* routes/inventory.js: the handlers of the inventory screen.  Each reads  *)
(* its row with a statement of its own and writes later (Begin..., then    *)
(* Commit...), except the bulk stock-in, which reads inside its            *)
(* transaction.                                                            *)
(***************************************************************************)
EXTENDS Stockroom

CONSTANTS
    Screens,      \* the clients that may use the inventory screen
    Amounts,      \* quantities a request may name
    AdjustQtys,   \* quantities an adjustment may name, of either sign
    AdjustTypes   \* the movement types an adjustment may name

ASSUME InventoryAssumption ==
    /\ Screens \subseteq Clients
    /\ Amounts \subseteq Nat
    /\ AdjustQtys \subseteq Int
    /\ AdjustTypes \subseteq (MoveTypes \ {"PURCHASE", "SALE", "WARRANTY_IN", "WARRANTY_OUT"})

NoVersion == -1
NoPrice == 0

InventoryReq ==
    [op : {"create", "opening"}, part : Parts, qty : Amounts, cost : Prices \cup {NoPrice}]
    \cup [op : {"edit"}, part : Parts, qty : Nat, seen : Nat, version : Nat \cup {NoVersion},
          cost : Prices \cup {NoPrice}]
    \cup [op : {"purchase"}, part : Parts, qty : Amounts \ {0}, seen : Nat, seenCost : Nat,
          price : Prices \cup {NoPrice}]
    \cup [op : {"adjust"}, part : Parts, qty : AdjustQtys, type : AdjustTypes]

Start(c, q) == req[c].op = "idle" /\ req' = [req EXCEPT ![c] = q] /\ UNCHANGED tables

-----------------------------------------------------------------------------
(* POST /: the row and the movement of its opening stock are two           *)
(* statements, each its own transaction.                                   *)
BeginCreate(c) ==
    \E p \in Parts, n \in Amounts, price \in Prices \cup {NoPrice} :
        /\ ~Exists(p)
        /\ Start(c, [op |-> "create", part |-> p, qty |-> n, cost |-> price])

CreateRow(c) ==
    LET q == req[c] IN
    /\ q.op = "create"
    /\ ~Exists(q.part)
    /\ row' = [row EXCEPT ![q.part] =
                 [qty |-> q.qty, version |-> 0, cost |-> q.cost]]
    /\ req' = [req EXCEPT ![c] = IF q.qty > 0 THEN [q EXCEPT !.op = "opening"] ELSE Idle]
    /\ UNCHANGED <<moved, orders, claims, disturbed>>

RecordOpening(c) ==
    /\ req[c].op = "opening"
    /\ Record("PURCHASE", req[c].part, req[c].qty)
    /\ Done(c)
    /\ UNCHANGED <<row, orders, claims, disturbed>>

-----------------------------------------------------------------------------
(* PUT /:id: the correction is computed from the row read here.  A version *)
(* is one the client was shown earlier; a price is optional.               *)
BeginEdit(c) ==
    \E p \in Parts : \E n \in Amounts \cup {row[p].qty}, price \in Prices \cup {NoPrice},
                       v \in (0..row[p].version) \cup {NoVersion} :
        /\ Exists(p)
        /\ Start(c, [op |-> "edit", part |-> p, qty |-> n, seen |-> row[p].qty,
                     version |-> v, cost |-> price])

(* updateMany ... WHERE version = clientVersion, or update by id when the  *)
(* client sent none.                                                       *)
VersionCurrent(q) == q.version \in {NoVersion, row[q.part].version}

Edited(old, q) ==
    [qty     |-> q.qty,
     version |-> IF q.version = NoVersion THEN old.version ELSE old.version + 1,
     cost    |-> IF q.cost = NoPrice THEN old.cost ELSE q.cost]

(* A stock that differs from the row's, with the AUDIT movement of the     *)
(* signed difference.  The movement is written before the version is       *)
(* compared and stays when no row matches: the handler answers 409 and     *)
(* does not throw.                                                         *)
CommitCorrection(c) ==
    LET q == req[c] IN
    /\ q.op = "edit"
    /\ q.qty # q.seen
    /\ q.qty <= MaxStock
    /\ row[q.part].version < MaxVersion
    /\ Record("AUDIT", q.part, q.qty - q.seen)
    /\ row' = IF VersionCurrent(q) THEN [row EXCEPT ![q.part] = Edited(@, q)] ELSE row
    /\ disturbed' = IF VersionCurrent(q) /\ row[q.part].qty = q.seen
                    THEN disturbed ELSE disturbed \cup {q.part}
    /\ Done(c)
    /\ UNCHANGED <<orders, claims>>

(* The same stock as the row's: only the other columns are written.        *)
CommitDetails(c) ==
    LET q == req[c]
        old == row[q.part]
    IN
    /\ q.op = "edit"
    /\ q.qty = q.seen
    /\ VersionCurrent(q)
    /\ old.version < MaxVersion
    /\ row' = [row EXCEPT ![q.part] = [Edited(old, q) EXCEPT !.qty = old.qty]]
    /\ Done(c)
    /\ UNCHANGED <<moved, orders, claims, disturbed>>

-----------------------------------------------------------------------------
(* Rounding of Math.round on a non-negative quotient.                      *)
Rounded(n, d) == (2 * n + d) \div (2 * d)

WeightedCost_NewStockForgotten(seen, seenCost, n, price) ==
    Rounded(seen * seenCost + n * price, IF seen = 0 THEN n ELSE seen)

(* The weighted average of the stock there was and the stock that comes;   *)
(* a row without a price counts as bought at the new one.                  *)
WeightedCost(seen, seenCost, n, price) ==
    Rounded(seen * (IF seenCost = NoPrice THEN price ELSE seenCost) + n * price, seen + n)

(* POST /purchase.                                                         *)
BeginPurchase(c) ==
    \E p \in Parts, n \in Amounts \ {0}, price \in Prices \cup {NoPrice} :
        /\ Exists(p)
        /\ Start(c, [op |-> "purchase", part |-> p, qty |-> n, seen |-> row[p].qty,
                     seenCost |-> row[p].cost, price |-> price])

CommitPurchase(c) ==
    LET q == req[c] IN
    /\ q.op = "purchase"
    /\ Record("PURCHASE", q.part, q.qty)
    /\ row[q.part].qty + q.qty <= MaxStock
    /\ row' = [row EXCEPT
                 ![q.part].qty = @ + q.qty,
                 ![q.part].cost = IF q.price = NoPrice THEN @
                                  ELSE WeightedCost(q.seen, q.seenCost, q.qty, q.price)]
    /\ Done(c)
    /\ UNCHANGED <<orders, claims, disturbed>>

-----------------------------------------------------------------------------
(* One item of the bulk stock-in: a new row, or more stock at the price    *)
(* of the item (no average is taken).  An item that names no price keeps   *)
(* the row's; one that names 0 or an empty price clears it.                *)
BulkRow(old, n, price, named) ==
    IF old = NoRow THEN [qty |-> n, version |-> 0, cost |-> price]
    ELSE [old EXCEPT !.qty = @ + n, !.cost = IF named THEN price ELSE @]

(* POST /bulk-stock-in: all items in one transaction.  An item whose       *)
(* statement fails aborts all of it, although the loop goes on.            *)
BulkStockIn ==
    \E S \in SUBSET Parts \ {{}} :
      \E qty \in [S -> Amounts], price \in Prices \cup {NoPrice}, named \in BOOLEAN :
        /\ price # NoPrice => named
        /\ \A p \in S : /\ row[p].qty + qty[p] <= MaxStock
                        /\ moved[p] + qty[p] <= MaxMoved
        /\ row' = [p \in Parts |-> IF p \in S THEN BulkRow(row[p], qty[p], price, named)
                                   ELSE row[p]]
        /\ moved' = [p \in Parts |->
                       IF p \in S THEN moved[p] + Signed("PURCHASE", qty[p]) ELSE moved[p]]
        /\ UNCHANGED <<orders, claims, disturbed, req>>

-----------------------------------------------------------------------------
Magnitude(n) == IF n < 0 THEN -n ELSE n

AdjustmentDelta_AuditIsPaper(t, n) ==
    CASE t \in OutTypes -> -Magnitude(n)
      [] t \in PaperTypes \cup {"AUDIT"} -> 0
      [] OTHER -> n

(* What an adjustment adds to the stock: the outward types take the        *)
(* magnitude of what the request names.                                    *)
AdjustmentDelta(t, n) ==
    CASE t \in OutTypes -> -Magnitude(n)
      [] t \in PaperTypes -> 0
      [] OTHER -> n

(* POST /adjust: the check is early feedback, the CHECK on the table       *)
(* decides.                                                                *)
BeginAdjust(c) ==
    \E p \in Parts, n \in AdjustQtys, t \in AdjustTypes :
        /\ Exists(p)
        /\ AdjustmentDelta(t, n) < 0 => row[p].qty + AdjustmentDelta(t, n) >= 0
        /\ Start(c, [op |-> "adjust", part |-> p, qty |-> n, type |-> t])

(* The movement keeps the quantity with the sign it was named with.        *)
CommitAdjust(c) ==
    LET q == req[c]
        delta == AdjustmentDelta(q.type, q.qty)
    IN
    /\ q.op = "adjust"
    /\ Record(q.type, q.part, q.qty)
    /\ Shift(q.part, delta)
    /\ disturbed' = IF q.type \in OutTypes /\ q.qty < 0
                    THEN disturbed \cup {q.part} ELSE disturbed
    /\ Done(c)
    /\ UNCHANGED <<orders, claims>>

InventoryNext ==
    \/ \E c \in Screens :
        \/ BeginCreate(c) \/ CreateRow(c) \/ RecordOpening(c)
        \/ BeginEdit(c) \/ CommitCorrection(c) \/ CommitDetails(c)
        \/ BeginPurchase(c) \/ CommitPurchase(c)
        \/ BeginAdjust(c) \/ CommitAdjust(c)
    \/ BulkStockIn
=============================================================================
