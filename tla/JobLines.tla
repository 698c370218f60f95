------------------------------ MODULE JobLines ------------------------------
(***************************************************************************)
(* The lines of a job card and the parts that are asked for.  A mechanic   *)
(* who adds a line of a part takes it from stock and, removing the line,   *)
(* puts it back; the shop adds and removes lines without touching stock.   *)
(***************************************************************************)
EXTENDS JobCards

CONSTANTS
    Qtys,         \* quantities a line may have
    MaxLines,     \* bound on the lines ever added
    MaxStock,     \* bound on the stock of a part
    Verdicts,     \* how requests for parts may be decided
    MaxRequests   \* bound on the part requests

ASSUME JobLinesAssumption ==
    /\ Qtys \subseteq Nat \ {0}
    /\ MaxLines \in Nat
    /\ MaxStock \in Nat
    /\ Verdicts \subseteq {"APPROVED", "REJECTED"}
    /\ MaxRequests \in Nat

(* A line that is of type PART and names an inventory row has a part; all  *)
(* others (labour, outside parts) have none.                               *)
Line == [id : Nat, job : Nat, part : Parts \cup {None}, qty : Qtys,
         took : BOOLEAN]   \* history: its quantity was taken from stock

LineReq ==
    [op : {"add"}, job : Nat, part : Parts \cup {None}, qty : Qtys]
    \cup [op : {"remove"}, line : Nat]

Decisions == {"PENDING"} \cup Verdicts
PartRequest == [job : Nat, review : Decisions, customer : Decisions]

(* JOB_LOCKED.                                                             *)
Locked(j) == jobs[j].status \in Closed \cup {"QC_PASSED"}

AddLine(j, p, n, took) ==
    /\ serial < MaxLines
    /\ serial' = serial + 1
    /\ lines' = lines \cup {[id |-> serial + 1, job |-> j, part |-> p, qty |-> n, took |-> took]}

-----------------------------------------------------------------------------
(* POST /jobs/:id/items of the mechanic: status and stock are read first.  *)
BeginAddPart(c) ==
    \E j \in 1..Len(jobs), p \in Parts \cup {None}, n \in Qtys :
        /\ req[c].op = "idle"
        /\ Own(j)
        /\ ~Locked(j)
        /\ p # None => stock[p] >= n
        /\ req' = [req EXCEPT ![c] = [op |-> "add", job |-> j, part |-> p, qty |-> n]]
        /\ UNCHANGED tables

(* CHECK (stock_qty >= 0) of the table.                                    *)
Enough(p, n) == stock[p] >= n

(* The line, the stock and the JOB_CARD movement in one transaction.       *)
CommitAddPart(c) ==
    LET q == req[c] IN
    /\ q.op = "add"
    /\ AddLine(q.job, q.part, q.qty, q.part # None)
    /\ IF q.part = None THEN UNCHANGED stock
       ELSE Enough(q.part, q.qty) /\ stock' = [stock EXCEPT ![q.part] = @ - q.qty]
    /\ req' = [req EXCEPT ![c] = Idle]
    /\ UNCHANGED <<jobs, mislaid, bays, requests>>

(* DELETE /jobs/:id/items/:itemId of the mechanic.                         *)
BeginRemovePart(c) ==
    \E l \in lines :
        /\ req[c].op = "idle"
        /\ Own(l.job)
        /\ ~Locked(l.job)
        /\ req' = [req EXCEPT ![c] = [op |-> "remove", line |-> l.id]]
        /\ UNCHANGED tables

RestoreStock_Forgotten(l) == UNCHANGED <<stock, mislaid>>

(* "Restore stock for inventory-linked parts", whether or not the line     *)
(* took any when it was added.                                             *)
RestoreStock(l) ==
    IF l.part = None THEN UNCHANGED <<stock, mislaid>>
    ELSE /\ stock[l.part] + l.qty <= MaxStock
         /\ stock' = [stock EXCEPT ![l.part] = @ + l.qty]
         /\ mislaid' = IF l.took THEN mislaid ELSE [mislaid EXCEPT ![l.part] = @ - l.qty]

(* DELETE ... RETURNING: a line another request has removed meanwhile      *)
(* returns no row, and nothing is restored (Abandon).                      *)
CommitRemovePart(c) ==
    /\ req[c].op = "remove"
    /\ \E l \in lines :
        /\ l.id = req[c].line
        /\ lines' = lines \ {l}
        /\ RestoreStock(l)
    /\ req' = [req EXCEPT ![c] = Idle]
    /\ UNCHANGED <<jobs, serial, bays, requests>>

-----------------------------------------------------------------------------
(* POST /jobs/:id/items of the shop, on a job of any status.               *)
OwnerAddLine(j, p, n) ==
    /\ AddLine(j, p, n, FALSE)
    /\ UNCHANGED <<jobs, stock, mislaid, bays, requests, req>>

(* DELETE /jobs/:id/items/:itemId of the shop: by the id of the item       *)
(* alone, and what it took stays away from stock.                          *)
OwnerRemoveLine(l) ==
    /\ lines' = lines \ {l}
    /\ mislaid' = IF l.took THEN [mislaid EXCEPT ![l.part] = @ + l.qty] ELSE mislaid
    /\ UNCHANGED <<jobs, serial, stock, bays, requests, req>>

-----------------------------------------------------------------------------
(* POST /jobs/:id/part-requests.                                           *)
RequestPart(j) ==
    /\ Own(j)
    /\ Len(requests) < MaxRequests
    /\ requests' = Append(requests, [job |-> j, review |-> "PENDING", customer |-> "PENDING"])
    /\ UNCHANGED <<jobs, lines, serial, stock, mislaid, bays, req>>

(* PATCH /jobs/:id/part-requests/:reqId, as often as the shop likes.       *)
ReviewRequest(r, decision) ==
    /\ requests' = [requests EXCEPT ![r].review = decision]
    /\ UNCHANGED <<jobs, lines, serial, stock, mislaid, bays, req>>

(* POST /jobs/:id/calls with an outcome that settles a request.            *)
LogCall(r, outcome) ==
    /\ Own(requests[r].job)
    /\ requests' = [requests EXCEPT ![r].customer = outcome]
    /\ UNCHANGED <<jobs, lines, serial, stock, mislaid, bays, req>>

LineNext ==
    \/ \E c \in Clients :
        BeginAddPart(c) \/ CommitAddPart(c) \/ BeginRemovePart(c) \/ CommitRemovePart(c)
    \/ \E j \in 1..Len(jobs), p \in Parts \cup {None}, n \in Qtys : OwnerAddLine(j, p, n)
    \/ \E l \in lines : OwnerRemoveLine(l)
    \/ \E j \in 1..Len(jobs) : RequestPart(j)
    \/ \E r \in 1..Len(requests), decision \in Verdicts :
        ReviewRequest(r, decision) \/ LogCall(r, decision)
=============================================================================
