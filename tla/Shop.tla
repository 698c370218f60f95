-------------------------------- MODULE Shop --------------------------------
(***************************************************************************)
(* The tables of one shop that the billing desk and the returns desk share *)
(* and the row-level writes both of them make.  Every query of the program *)
(* is scoped by shopId, so one shop is one independent state.              *)
(*                                                                         *)
(* Rows are kept as the program sees them, with the detail no property     *)
(* tells apart left out: an invoice line is a part and a quantity, so the  *)
(* lines of an invoice are a cart, a function from parts to quantities.    *)
(* Money is in units of which a rupee has Rupee: invoices are rounded to   *)
(* whole rupees, line totals, returns and credit notes are not.            *)
(*                                                                         *)
(* A name with an underscore (Rollback_BurnsNumber) is a mutated form of   *)
(* the definition before the underscore: a mistake the code might have     *)
(* made, used only to see that the properties would notice it.             *)
(***************************************************************************)
EXTENDS Integers, Sequences

CONSTANTS
    Parts,         \* inventory rows of the shop
    Parties,       \* customers with a Party row
    NoParty,       \* a null partyId
    Reqs,          \* requests being served at once
    Carts,         \* the carts a request may ask for
    CartTotal,     \* price of a cart: the GST and discount arithmetic
    Rupee,         \* a rupee, in the units of money
    Cent,          \* what the code writes 0.01 for: balances this small are none
    Opening,       \* stock of each part when the shop opens
    MaxInvoices    \* bound on the number of invoices

Quantities == [Parts -> Nat]

ASSUME ShopAssumption ==
    /\ NoParty \notin Parties
    /\ Carts \subseteq Quantities
    /\ CartTotal \in [Carts -> Nat]
    /\ Rupee \in Nat /\ Cent \in Nat /\ 2 * Cent < Rupee
    /\ Opening \in Quantities
    /\ MaxInvoices \in Nat

VARIABLES
    stockQty,      \* shop_inventory.stock_qty
    damagedQty,    \* shop_inventory.damaged_qty
    moved,         \* movements.qty summed by type and part
    counters,      \* number_counters.last_value by series
    invoices,      \* the invoices in the order they were committed
    notes,         \* the credit notes in the order they were committed
    outstanding,   \* parties.outstanding
    req            \* what each request being served has read so far

tables == <<stockQty, damagedQty, moved, counters, invoices, notes, outstanding>>
vars == <<tables, req>>

(* RETAIL, CREDIT, WORKSHOP and EXCHANGE invoices take the same branches   *)
(* everywhere: they are the kind SALE.                                     *)
Kinds == {"SALE", "ESTIMATE", "RETURN"}
Series == {"INV", "EST", "RET", "CN"}
MoveTypes == {"OPENING", "SALE", "ESTIMATE", "RETURN_OUT",
              "SALES_RETURN_IN", "SALES_RETURN_DAMAGED"}
Customers == Parties \cup {NoParty}

(* Math.round of an amount: the nearest rupee, a half upwards.             *)
Rounded(amount) == Rupee * ((2 * amount + Rupee) \div (2 * Rupee))
InvoiceTotal == [cart \in Carts |-> Rounded(CartTotal[cart])]

Nothing == [p \in Parts |-> 0]
Plus(a, b) == [p \in Parts |-> a[p] + b[p]]
Minus(a, b) == [p \in Parts |-> a[p] - b[p]]
Covers(a, b) == \A p \in Parts : b[p] <= a[p]

Invoice ==
    [series : {"INV", "EST"}, number : Nat, kind : Kinds, party : Customers,
     cart : Carts, credit : Nat, note : Nat, applied : Nat,
     status : {"PAID", "CREDIT", "CONVERTED"},
     returned : Quantities]      \* sales_return_items.qty summed by line

CreditNote ==
    [number : Nat, party : Customers, total : Nat, remaining : Nat,
     status : {"UNUSED", "PARTIALLY_USED", "FULLY_USED", "REFUNDED"}]

(* The upsert on number_counters.  It holds the counter's row until the    *)
(* transaction ends, so the transactions of one series exclude each other; *)
(* a transaction that rolls back takes its increment back with it.         *)
NextSeq(s) == counters[s] + 1
Bump(s) == [counters EXCEPT ![s] = @ + 1]

(* One PartyLedger row and the increment of Party.outstanding it explains. *)
WriteLedger(party, debit, credit) ==
    IF party = NoParty THEN outstanding
    ELSE [outstanding EXCEPT ![party] = @ + debit - credit]

Idle == [op |-> "idle"]

Rollback_BurnsNumber(r) ==
    /\ req[r].op # "idle"
    /\ req' = [req EXCEPT ![r] = Idle]
    /\ counters' = IF req[r].op = "invoice" THEN Bump("INV") ELSE counters
    /\ UNCHANGED <<stockQty, damagedQty, moved, invoices, notes, outstanding>>

(* A transaction fails (a guard finds no row, a timeout, a lost connection *)
(* or a crash) and leaves no trace in any table.                           *)
Rollback(r) ==
    /\ req[r].op # "idle"
    /\ req' = [req EXCEPT ![r] = Idle]
    /\ UNCHANGED tables

TablesInit ==
    /\ stockQty = Opening
    /\ damagedQty = Nothing
    /\ moved = [t \in MoveTypes |-> IF t = "OPENING" THEN Opening ELSE Nothing]
    /\ counters = [s \in Series |-> 0]
    /\ invoices = <<>>
    /\ notes = <<>>
    /\ outstanding = [p \in Parties |-> 0]
    /\ req = [r \in Reqs |-> Idle]
=============================================================================
