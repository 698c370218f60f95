--------------------------- MODULE PurchaseReturns ---------------------------
(***************************************************************************)
(* routes/purchaseReturns.js, and the supplier's credit in parties.js.  A  *)
(* return names a movement that a bill's import wrote; weeks later its     *)
(* resolution is recorded, under a version number; a resolution that is    *)
(* credit raises the supplier's balance, which is then applied to other    *)
(* purchases.                                                              *)
(*                                                                         *)
(* Each line of a request is checked against the returns in the database,  *)
(* before the rows of this one are created: lines that name one movement   *)
(* do not see each other.  Lines of different movements take the same step *)
(* in one transaction, so a return here has the lines of one movement.     *)
(***************************************************************************)
EXTENDS PurchaseBills

CONSTANTS
    ReturnForms,      \* the lines a return may have
    CreditAmounts,    \* the amounts of credit a request may apply
    MaxReturns,       \* bound on the number of returns
    MaxVersion        \* bound on the version of a return

ASSUME ReturnsAssumption ==
    /\ ReturnForms \subseteq [qty : Nat \ {0}, again : Nat]
    /\ CreditAmounts \subseteq Nat \ {0}
    /\ MaxReturns \in Nat
    /\ MaxVersion \in Nat

Resolutions == {"PENDING", "SUPPLIER_REFUND", "SUPPLIER_CREDIT", "REPLACEMENT"}

(* `qty' is what all lines of a return ask for, and `again' what those     *)
(* after the first ask for of the same movement, 0 for one line.           *)
(*                                                                         *)
(* `credits' counts the PURCHASE_RETURN_CREDIT ledger rows that refer to   *)
(* the return; `party' says whether its supplier is a registered party.    *)
PurchaseReturn ==
    [source : Nat, qty : Nat, again : Nat, party : BOOLEAN, resolution : Resolutions,
     version : Nat, creditLedgerPosted : BOOLEAN, credits : Nat]

ReturnReq ==
    [op : {"return"}, source : Nat, qty : Nat, again : Nat, party : BOOLEAN,
     resolution : Resolutions, seen : Nat, attempt : {1, 2}]
    \cup [op : {"resolve"}, return : Nat, to : Resolutions, version : Nat,
          seen : Resolutions]
    \cup [op : {"apply"}, amount : CreditAmounts]

(* Each line by itself is no more than what is left of the movement.       *)
Returnable(source, form) ==
    LET left == source.qty - source.returned IN
    form.qty - form.again <= left /\ form.again <= left

BeginReturn(c) ==
    /\ req[c].op = "idle"
    /\ Len(returns) < MaxReturns
    /\ \E s \in 1..Len(sources), form \in ReturnForms, party \in BOOLEAN,
          resolution \in Resolutions :
        /\ Returnable(sources[s], form)
        /\ req' = [req EXCEPT ![c] =
                     [op |-> "return", source |-> s, qty |-> form.qty,
                      again |-> form.again, party |-> party, resolution |-> resolution,
                      seen |-> sources[s].returned, attempt |-> 1]]
    /\ UNCHANGED tables

SnapshotCurrent_Ignored(q) == TRUE

(* Serializable: the sum of earlier returns is still what was read.        *)
SnapshotCurrent(q) == q.seen = sources[q.source].returned

(* updateMany ... WHERE stockQty >= qty, line by line.                     *)
InStock(q) == stockQty[sources[q.source].part] >= q.qty

NewReturn(q) ==
    [source |-> q.source, qty |-> q.qty, again |-> q.again, party |-> q.party,
     resolution |-> q.resolution, version |-> 0,
     creditLedgerPosted |-> FALSE, credits |-> 0]

CommitReturn(c) ==
    LET q == req[c] IN
    /\ q.op = "return"
    /\ Len(returns) < MaxReturns
    /\ SnapshotCurrent(q)
    /\ InStock(q)
    /\ LET p == sources[q.source].part IN
        /\ stockQty' = [stockQty EXCEPT ![p] = @ - q.qty]
        /\ moved' = [moved EXCEPT !["PURCHASE_RETURN_OUT"][p] = @ + q.qty]
    /\ sources' = [sources EXCEPT ![q.source].returned = @ + q.qty]
    /\ returns' = Append(returns, NewReturn(q))
    /\ Done(c)
    /\ UNCHANGED <<orderTables, bills, owed, applied>>

(* P2034: the transaction once more, on a new snapshot.                    *)
RetryReturn(c) ==
    LET q == req[c] IN
    /\ q.op = "return"
    /\ q.attempt = 1
    /\ Returnable(sources[q.source], q)
    /\ req' = [req EXCEPT ![c].seen = sources[q.source].returned,
                          ![c].attempt = 2]
    /\ UNCHANGED tables

(* A client opens the return and decides on its resolution.                *)
BeginResolve(c, n) ==
    /\ req[c].op = "idle"
    /\ returns[n].version < MaxVersion
    /\ \E to \in Resolutions :
        req' = [req EXCEPT ![c] =
                  [op |-> "resolve", return |-> n, to |-> to,
                   version |-> returns[n].version, seen |-> returns[n].resolution]]
    /\ UNCHANGED tables

VersionCurrent_Ignored(q) == TRUE
PostsCredit_Again(r, to) == to = "SUPPLIER_CREDIT" /\ r.party

(* updateMany ... WHERE version = the one the client saw.                  *)
VersionCurrent(q) == returns[q.return].version = q.version

(* The first resolution to land on credit posts it, if the supplier is a   *)
(* registered party.                                                       *)
PostsCredit(r, to) ==
    to = "SUPPLIER_CREDIT" /\ r.party /\ ~r.creditLedgerPosted

Resolved(r, to) ==
    [r EXCEPT !.resolution = to,
              !.version = @ + 1,
              !.creditLedgerPosted = @ \/ PostsCredit(r, to),
              !.credits = IF PostsCredit(r, to) THEN @ + 1 ELSE @]

(* PATCH /:id/resolution.                                                  *)
CommitResolve(c) ==
    LET q == req[c] IN
    /\ q.op = "resolve"
    /\ VersionCurrent(q)
    /\ returns' = [returns EXCEPT ![q.return] = Resolved(@, q.to)]
    /\ owed' = IF PostsCredit(returns[q.return], q.to)
               THEN LedgerBalance(returns[q.return].qty, 0) ELSE owed
    /\ Done(c)
    /\ UNCHANGED <<stockQty, moved, orderTables, billTables, applied>>

(* POST /parties/:id/apply-supplier-credit: the balance is read first ...  *)
BeginApply(c) ==
    /\ req[c].op = "idle"
    /\ \E amount \in CreditAmounts :
        /\ amount <= owed
        /\ req' = [req EXCEPT ![c] = [op |-> "apply", amount |-> amount]]
    /\ UNCHANGED tables

(* ... and decremented without looking at it again.                        *)
CommitApply(c) ==
    /\ req[c].op = "apply"
    /\ owed' = LedgerBalance(0, req[c].amount)
    /\ applied' = applied + req[c].amount
    /\ Done(c)
    /\ UNCHANGED <<stockQty, moved, orderTables, billTables, returns>>

PurchaseReturnsNext ==
    \E c \in Clients :
        \/ BeginReturn(c) \/ CommitReturn(c) \/ RetryReturn(c)
        \/ \E n \in 1..Len(returns) : BeginResolve(c, n)
        \/ CommitResolve(c) \/ BeginApply(c) \/ CommitApply(c)
=============================================================================
