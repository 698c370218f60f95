---------------------------- MODULE SalesReturns ----------------------------
(***************************************************************************)
(* routes/salesReturns.js and lib/serializable-tx.js: returns against an   *)
(* invoice, and walk-in returns without one.  Both always issue a credit   *)
(* note.                                                                   *)
(*                                                                         *)
(* The transaction of a return runs SERIALIZABLE: it sums the quantities   *)
(* already returned in its own snapshot (BeginReturn), and commits only if *)
(* no transaction that committed since has changed that sum                *)
(* (CommitReturn); on a serialization failure the wrapper runs it once     *)
(* more on a new snapshot (RetryReturn).                                   *)
(***************************************************************************)
EXTENDS Shop

CONSTANTS
    ReturnForms,   \* quantities returned: [good, bad], by condition
    ReturnTotal,   \* value of a form: its taxable value and GST
    WalkInForms,   \* the forms a walk-in return may have
    RefundModes,   \* the refund modes a request may ask for
    MaxReturns     \* bound on the number of returns

ASSUME ReturnsAssumption ==
    /\ ReturnForms \subseteq [good : Quantities, bad : Quantities]
    /\ WalkInForms \subseteq ReturnForms
    /\ ReturnTotal \in [ReturnForms -> Nat]
    /\ RefundModes \subseteq {"CASH", "STORE_CREDIT", "EXCHANGE"}
    /\ MaxReturns \in Nat

(* A line of the request names an invoice line, a quantity and a           *)
(* condition; SEALED and GOOD are resellable (good), the rest damaged      *)
(* (bad).  A part in both has two lines in the request.                    *)
ReturnReq ==
    [op : {"return"}, invoice : Nat, form : ReturnForms, mode : RefundModes,
     seen : Quantities, attempt : {1, 2}]

(* The check of each line against the quantity sold less the quantity      *)
(* returned before.  The rows of this return are created after the loop,   *)
(* so no line sees the ones before it.                                     *)
Returnable(sold, seen, form) ==
    \A p \in Parts :
        /\ form.good[p] <= sold[p] - seen[p]
        /\ form.bad[p] <= sold[p] - seen[p]

(* Store credit needs a customer, anything else does not; EXCHANGE stands  *)
(* for store credit with forExchange, which anybody may have.              *)
ModeAllowed(mode, party) == mode = "STORE_CREDIT" => party # NoParty

BeginReturn(r) ==
    /\ req[r].op = "idle"
    /\ Len(notes) < MaxReturns
    /\ \E i \in 1..Len(invoices), f \in ReturnForms, m \in RefundModes :
        /\ ModeAllowed(m, invoices[i].party)
        /\ Returnable(invoices[i].cart, invoices[i].returned, f)
        /\ req' = [req EXCEPT ![r] =
                     [op |-> "return", invoice |-> i, form |-> f, mode |-> m,
                      seen |-> invoices[i].returned, attempt |-> 1]]
    /\ UNCHANGED tables

StoreCredit_AnyMode(mode, form) == ReturnTotal[form]

AllUnits(form) == Plus(form.good, form.bad)

(* Only store credit leaves a balance on the note; a refund pays it out.   *)
StoreCredit(mode, form) == IF mode = "CASH" THEN 0 ELSE ReturnTotal[form]

NewNote(form, mode, party) ==
    [number    |-> NextSeq("CN"),
     party     |-> party,
     total     |-> ReturnTotal[form],
     remaining |-> StoreCredit(mode, form),
     status    |-> IF mode = "CASH" THEN "REFUNDED" ELSE "UNUSED"]

(* What commits for either kind of return: stock by disposition, its       *)
(* movements, the RET and CN numbers, the credit note and, for store       *)
(* credit, the ledger row that turns the customer's balance negative.      *)
PostReturn(form, mode, party) ==
    /\ stockQty' = Plus(stockQty, form.good)
    /\ damagedQty' = Plus(damagedQty, form.bad)
    /\ moved' = [moved EXCEPT !["SALES_RETURN_IN"] = Plus(@, form.good),
                              !["SALES_RETURN_DAMAGED"] = Plus(@, form.bad)]
    /\ counters' = [counters EXCEPT !["RET"] = @ + 1, !["CN"] = @ + 1]
    /\ notes' = Append(notes, NewNote(form, mode, party))
    /\ outstanding' = WriteLedger(party, 0, StoreCredit(mode, form))

SnapshotCurrent_Ignored(q) == TRUE

(* First-committer-wins on the sum the snapshot read.                      *)
SnapshotCurrent(q) == q.seen = invoices[q.invoice].returned

CommitReturn(r) ==
    LET q == req[r] IN
    /\ q.op = "return"
    /\ Len(notes) < MaxReturns
    /\ SnapshotCurrent(q)
    /\ PostReturn(q.form, q.mode, invoices[q.invoice].party)
    /\ invoices' = [invoices EXCEPT ![q.invoice].returned =
                      Plus(@, AllUnits(q.form))]
    /\ req' = [req EXCEPT ![r] = Idle]

(* P2034: the whole transaction function again, its checks included.       *)
RetryReturn(r) ==
    LET q == req[r] IN
    /\ q.op = "return"
    /\ q.attempt = 1
    /\ Returnable(invoices[q.invoice].cart, invoices[q.invoice].returned, q.form)
    /\ req' = [req EXCEPT ![r].seen = invoices[q.invoice].returned,
                          ![r].attempt = 2]
    /\ UNCHANGED tables

(* createWalkInSalesReturn: there is no invoice line to check against, so  *)
(* nothing is read that could be stale.                                    *)
WalkInReturn(f, m, party) ==
    /\ Len(notes) < MaxReturns
    /\ ModeAllowed(m, party)
    /\ PostReturn(f, m, party)
    /\ UNCHANGED <<invoices, req>>

ReturnsNext ==
    \/ \E r \in Reqs : BeginReturn(r) \/ CommitReturn(r) \/ RetryReturn(r)
    \/ \E f \in WalkInForms, m \in RefundModes, party \in Customers :
            WalkInReturn(f, m, party)
=============================================================================
