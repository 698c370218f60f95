------------------------------ MODULE Stockroom ------------------------------
(***************************************************************************)
(* The rows of shop_inventory that the inventory screen, the marketplace   *)
(* and the warranty desk of one shop share, and the movements that are     *)
(* meant to explain them.                                                  *)
(*                                                                         *)
(* A row is kept per catalogue part (shop and masterPartId are unique      *)
(* together, also for deleted rows).  Prices are in whole units of the     *)
(* smallest coin; 0 stands for a null buying price.  A name with an        *)
(* underscore is a mutated form of the definition before the underscore.   *)
(***************************************************************************)
EXTENDS Integers, Sequences

CONSTANTS
    Parts,       \* catalogue parts
    Clients,     \* requests being served at once
    Stocked,     \* the parts with a row when the shop opens
    OpeningQty,  \* the stock of each of them
    Prices,      \* the buying prices a request may give
    MaxStock,    \* bound on the stock of a part
    MaxMoved,    \* bound on the units the movements of a part account for
    MaxVersion   \* bound on the versions of a row

ASSUME StockroomAssumption ==
    /\ Stocked \subseteq Parts
    /\ OpeningQty \in Nat
    /\ Prices \subseteq Nat \ {0}
    /\ MaxStock \in Nat
    /\ MaxMoved \in Nat
    /\ MaxVersion \in Nat

VARIABLES
    row,        \* shop_inventory by part
    moved,      \* movements.qty of a part, summed with the sign of their types
    orders,     \* marketplace_orders
    claims,     \* warranty_claims
    disturbed,  \* history: parts whose stock and movements a request set apart
    req         \* what each request being served has read so far

tables == <<row, moved, orders, claims, disturbed>>
vars == <<tables, req>>

Row == [qty : Nat, version : Nat, cost : Nat]
NoRow == [qty |-> 0, version |-> -1, cost |-> 0]
Exists(p) == row[p] # NoRow

InTypes == {"PURCHASE", "OPENING", "RETURN_IN", "ADJUSTMENT", "AUDIT", "WARRANTY_IN"}
OutTypes == {"SALE", "DAMAGE", "THEFT", "RETURN_OUT", "WARRANTY_OUT"}
PaperTypes == {"CREDIT_NOTE", "DEBIT_NOTE"}
MoveTypes == InTypes \cup OutTypes \cup PaperTypes

Quantities == [Parts -> Nat]
Idle == [op |-> "idle"]

Init ==
    /\ row = [p \in Parts |->
                IF p \in Stocked
                THEN [qty |-> OpeningQty, version |-> 0, cost |-> 0]
                ELSE NoRow]
    /\ moved = [p \in Parts |-> IF p \in Stocked THEN OpeningQty ELSE 0]
    /\ orders = <<>>
    /\ claims = <<>>
    /\ disturbed = {}
    /\ req = [c \in Clients |-> Idle]

(* What a movement of its type says about the stock.                       *)
Signed(t, n) ==
    CASE t \in InTypes -> n
      [] t \in OutTypes -> -n
      [] t \in PaperTypes -> 0

(* One movement row.  Its quantity may be zero or negative: index.js drops *)
(* CHECK (qty > 0) of the table before it serves requests.                 *)
Record(t, p, n) ==
    /\ moved[p] + Signed(t, n) \in -MaxMoved..MaxMoved
    /\ moved' = [moved EXCEPT ![p] = @ + Signed(t, n)]

Shift_Unchecked(p, n) ==
    /\ row[p].qty + n <= MaxStock
    /\ row' = [row EXCEPT ![p].qty = @ + n]

(* Stock changes by an increment, and CHECK (stock_qty >= 0) refuses one   *)
(* that goes below zero.                                                   *)
Shift(p, n) ==
    /\ row[p].qty + n \in 0..MaxStock
    /\ row' = [row EXCEPT ![p].qty = @ + n]

Done(c) == req' = [req EXCEPT ![c] = Idle]

(* A request ends early: a check or a guard fails, its transaction rolls   *)
(* back or the process dies.  Only the creation of a row has by then       *)
(* written something without the movement that explains it.                *)
Abandon(c) ==
    /\ req[c].op # "idle"
    /\ Done(c)
    /\ disturbed' = IF req[c].op = "opening"
                    THEN disturbed \cup {req[c].part} ELSE disturbed
    /\ UNCHANGED <<row, moved, orders, claims>>

(* billing.js sells a unit where stockQty >= 1 and records the movement.   *)
Sell(p) ==
    /\ Exists(p)
    /\ Shift(p, -1)
    /\ Record("SALE", p, 1)
    /\ UNCHANGED <<orders, claims, disturbed, req>>
=============================================================================
