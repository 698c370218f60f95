----------------------------- MODULE Receivables -----------------------------
(***************************************************************************)
(* What customers owe: the handler that records a payment of an invoice    *)
(* (routes/billing.js) and the entries of a party's ledger                 *)
(* (routes/parties.js), statement by statement where the locks of          *)
(* PostgreSQL decide what is true.                                         *)
(*                                                                         *)
(* An update of a party's row locks it until the transaction ends; a       *)
(* statement sees what was committed before it and what its own            *)
(* transaction wrote (READ COMMITTED).  What a transaction wrote is kept   *)
(* in its request and reaches the tables when it commits.                  *)
(***************************************************************************)
EXTENDS Integers, Sequences

CONSTANTS
    Parties,     \* customers with a Party row
    NoParty,     \* a null partyId
    Invoices,    \* the invoices that were sold on credit
    Sold,        \* total, part on credit and party of each of them
    Clients,     \* requests being served at once
    Amounts,     \* what a request may pay or enter
    MaxPaid,     \* bound on what is paid on one invoice
    MaxRows      \* bound on the rows of one ledger

Free == "free"   \* a row that no transaction holds

ASSUME ReceivablesAssumption ==
    /\ NoParty \notin Parties
    /\ Free \notin Clients
    /\ Sold \in [Invoices -> [total : Nat \ {0}, credit : Nat \ {0}, party : Parties \cup {NoParty}]]
    /\ \A i \in Invoices : Sold[i].credit <= Sold[i].total
    /\ Amounts \subseteq Nat \ {0}
    /\ MaxPaid \in Nat
    /\ MaxRows \in Nat

VARIABLES
    suppliers,    \* the parties whose type is SUPPLIER or BOTH
    status,       \* invoices.status
    payments,     \* invoice_payments.amount summed by invoice, committed rows only
    outstanding,  \* parties.outstanding
    ledger,       \* party_ledger: debit minus credit and balanceAfter of each row
    locked,       \* the transaction that holds a party's row
    req           \* the requests being served

tables == <<suppliers, status, payments, outstanding, ledger>>
vars == <<tables, locked, req>>

Idle == [op |-> "idle"]
LedgerRow == [change : Int, balance : Int]

PaymentReq ==
    [op : {"pay"}, invoice : Invoices, amount : Amounts, seen : {"CREDIT", "PAID"}]
    \cup [op : {"posted"}, invoice : Invoices, amount : Amounts,
          seen : {"CREDIT", "PAID"}, balance : Int]
    \cup [op : {"summed"}, invoice : Invoices, amount : Amounts,
          seen : {"CREDIT", "PAID"}, balance : Int, sum : Nat]

EntryReq ==
    [op : {"apply"}, party : Parties, change : Int]
    \cup [op : {"entry"}, party : Parties, change : Int, balance : Int]

-----------------------------------------------------------------------------
(* The party whose ledger a payment credits: none for a walk-in, nor when  *)
(* the invoice was read as paid.                                           *)
CreditedParty(q) == IF q.seen = "CREDIT" THEN Sold[q.invoice].party ELSE NoParty

(* The party whose row a request's transaction has updated.                *)
Holds(q) ==
    CASE q.op \in {"posted", "summed"} -> CreditedParty(q)
      [] q.op = "entry" -> q.party
      [] OTHER -> NoParty

LockParty_Unlocked(c, p) == UNCHANGED locked

(* The increment of Party.outstanding waits for the row.                   *)
LockParty(c, p) ==
    IF p = NoParty THEN UNCHANGED locked
    ELSE locked[p] = Free /\ locked' = [locked EXCEPT ![p] = c]

Unlock(c) == locked' = [p \in Parties |-> IF locked[p] = c THEN Free ELSE locked[p]]

(* What the increment of a party's balance returns.                        *)
Incremented(p, change) == IF p = NoParty THEN 0 ELSE outstanding[p] + change

(* writeLedgerDebit and writeLedgerEntry at commit: the balance that was   *)
(* incremented and the row that repeats it.                                *)
WriteLedger(p, change, balance) ==
    /\ Len(ledger[p]) < MaxRows
    /\ outstanding' = [outstanding EXCEPT ![p] = balance]
    /\ ledger' = [ledger EXCEPT ![p] =
                    Append(@, [change |-> change, balance |-> balance])]

-----------------------------------------------------------------------------
(* POST /invoice/:id/payment: the invoice is read before the transaction.  *)
BeginPayment(c) ==
    \E i \in Invoices, a \in Amounts :
        /\ req[c].op = "idle"
        /\ req' = [req EXCEPT ![c] = [op |-> "pay", invoice |-> i, amount |-> a,
                                      seen |-> status[i]]]
        /\ UNCHANGED <<tables, locked>>

(* invoicePayment.create and the ledger's credit.                          *)
PostPayment(c) ==
    LET q == req[c] IN
    /\ q.op = "pay"
    /\ LockParty(c, CreditedParty(q))
    /\ req' = [req EXCEPT ![c] =
                 [op |-> "posted", invoice |-> q.invoice, amount |-> q.amount, seen |-> q.seen,
                  balance |-> Incremented(CreditedParty(q), -q.amount)]]
    /\ UNCHANGED tables

(* The aggregate over the payments, its own among them.                    *)
SumPayments(c) ==
    LET q == req[c] IN
    /\ q.op = "posted"
    /\ req' = [req EXCEPT ![c] =
                 [op |-> "summed", invoice |-> q.invoice, amount |-> q.amount,
                  seen |-> q.seen, balance |-> q.balance, sum |-> payments[q.invoice] + q.amount]]
    /\ UNCHANGED <<tables, locked>>

Covered_Strictly(q) == q.sum > Sold[q.invoice].total

(* What was paid, all payments together, makes up the invoice's total.     *)
Covered(q) == q.sum >= Sold[q.invoice].total

CommitPayment(c) ==
    LET q == req[c] IN
    /\ q.op = "summed"
    /\ payments[q.invoice] + q.amount <= MaxPaid
    /\ payments' = [payments EXCEPT ![q.invoice] = @ + q.amount]
    /\ status' = IF Covered(q) THEN [status EXCEPT ![q.invoice] = "PAID"] ELSE status
    /\ IF CreditedParty(q) = NoParty THEN UNCHANGED <<outstanding, ledger>>
       ELSE WriteLedger(CreditedParty(q), -q.amount, q.balance)
    /\ Unlock(c)
    /\ req' = [req EXCEPT ![c] = Idle]
    /\ UNCHANGED suppliers

-----------------------------------------------------------------------------
(* POST /:id/ledger, the opening balance of POST / and POST /:id/payment,  *)
(* whose RECEIPT movement of quantity 0 names no part: one row.            *)
BeginEntry(c) ==
    \E p \in Parties, a \in Amounts : \E change \in {a, -a} :
        /\ req[c].op = "idle"
        /\ LockParty(c, p)
        /\ req' = [req EXCEPT ![c] = [op |-> "entry", party |-> p, change |-> change,
                                      balance |-> Incremented(p, change)]]
        /\ UNCHANGED tables

CommitEntry(c) ==
    /\ req[c].op = "entry"
    /\ WriteLedger(req[c].party, req[c].change, req[c].balance)
    /\ Unlock(c)
    /\ req' = [req EXCEPT ![c] = Idle]
    /\ UNCHANGED <<suppliers, status, payments>>

(* PUT /:id: a party may change its type at any time, but its row must not *)
(* be locked by a transaction (an update of one statement waits for it).   *)
EditParty(p, isSupplier) ==
    /\ locked[p] = Free
    /\ suppliers' = IF isSupplier THEN suppliers \cup {p} ELSE suppliers \ {p}
    /\ UNCHANGED <<status, payments, outstanding, ledger, locked, req>>

(* POST /:id/apply-supplier-credit: the party's type and what it is owed   *)
(* are read and compared before the transaction that takes it.             *)
BeginApply(c) ==
    \E p \in suppliers, a \in Amounts :
        /\ req[c].op = "idle"
        /\ a <= outstanding[p]
        /\ req' = [req EXCEPT ![c] = [op |-> "apply", party |-> p, change |-> -a]]
        /\ UNCHANGED <<tables, locked>>

LockApply(c) ==
    LET q == req[c] IN
    /\ q.op = "apply"
    /\ LockParty(c, q.party)
    /\ req' = [req EXCEPT ![c] = [op |-> "entry", party |-> q.party, change |-> q.change,
                                  balance |-> Incremented(q.party, q.change)]]
    /\ UNCHANGED tables

(* A check or a constraint fails, a timeout, or the process dies.          *)
Rollback(c) ==
    /\ req[c].op # "idle"
    /\ Unlock(c)
    /\ req' = [req EXCEPT ![c] = Idle]
    /\ UNCHANGED tables

Init ==
    /\ suppliers = {}
    /\ status = [i \in Invoices |-> "CREDIT"]
    /\ payments = [i \in Invoices |-> 0]
    /\ outstanding = [p \in Parties |-> 0]
    /\ ledger = [p \in Parties |-> <<>>]
    /\ locked = [p \in Parties |-> Free]
    /\ req = [c \in Clients |-> Idle]

Next ==
    \/ \E c \in Clients :
        \/ BeginPayment(c) \/ PostPayment(c) \/ SumPayments(c) \/ CommitPayment(c)
        \/ BeginEntry(c) \/ CommitEntry(c) \/ BeginApply(c) \/ LockApply(c)
        \/ Rollback(c)
    \/ \E p \in Parties, isSupplier \in BOOLEAN : EditParty(p, isSupplier)

Spec == Init /\ [][Next]_vars

-----------------------------------------------------------------------------
(* The tables have their types, and a party's row is locked by exactly the *)
(* request whose transaction has updated it.                               *)
TypeOK ==
    /\ suppliers \subseteq Parties
    /\ status \in [Invoices -> {"CREDIT", "PAID"}]
    /\ payments \in [Invoices -> Nat]
    /\ outstanding \in [Parties -> Int]
    /\ ledger \in [Parties -> Seq(LedgerRow)]
    /\ locked \in [Parties -> Clients \cup {Free}]
    /\ req \in [Clients -> {Idle} \cup PaymentReq \cup EntryReq]
    /\ \A p \in Parties, c \in Clients : locked[p] = c <=> Holds(req[c]) = p

(* An invoice of a linked customer is PAID exactly when its payments cover *)
(* its total, although each request sums them without a lock on the        *)
(* invoice: the ledger's credit, written first, locks the customer's row,  *)
(* so the second of two payments sums after the first has committed        *)
(* (billing.js 783-806).                                                   *)
PaidWhenCovered ==
    \A i \in Invoices :
        Sold[i].party # NoParty =>
            (status[i] = "PAID" <=> payments[i] >= Sold[i].total)

(* The ledger of a party is a chain: every row's balance is the previous   *)
(* one changed by the row, and the last is what the party owes             *)
(* (parties.js: "Atomic increment -- avoids read-modify-write race").      *)
LedgerIsAChain ==
    \A p \in Parties :
        /\ \A n \in 1..Len(ledger[p]) :
              ledger[p][n].balance =
                  ledger[p][n].change + IF n = 1 THEN 0 ELSE ledger[p][n - 1].balance
        /\ outstanding[p] = IF ledger[p] = <<>> THEN 0 ELSE ledger[p][Len(ledger[p])].balance

(* What was sold on credit and has been paid is not open any more          *)
(* (billing.js 795: "Mark invoice PAID if full amount covered").           *)
SettledIsPaid ==
    \A i \in Invoices : payments[i] >= Sold[i].credit => status[i] = "PAID"
=============================================================================
