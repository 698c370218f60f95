------------------------------ MODULE JobCards ------------------------------
(***************************************************************************)
(* The job cards of one workshop and the handlers that move them along:    *)
(* the shop's (routes/workshop.js) and the mechanic's                      *)
(* (routes/mechanic/jobs.js).  Each reads the card, compares its status    *)
(* with a table of transitions, and updates the card by its id alone.      *)
(*                                                                         *)
(* A card keeps what a handler decides by.  Its number comes from a series *)
(* of its own (module Sequence); the timeline, remarks, photos, commission *)
(* and messages about it decide nothing and are left out.                  *)
(***************************************************************************)
EXTENDS Integers, Sequences

CONSTANTS
    Clients,     \* requests being served at once
    Parts,       \* the shop's inventory rows
    Bays,        \* service bays
    None,        \* no part, no bay
    OpeningQty,  \* the stock of each part to begin with
    MaxJobs      \* bound on the number of job cards

ASSUME JobCardsAssumption ==
    /\ None \notin Parts \cup Bays
    /\ OpeningQty \in Nat
    /\ MaxJobs \in Nat

VARIABLES
    jobs,      \* job_cards
    lines,     \* job_card_items
    serial,    \* the last id given to an item
    stock,     \* shop_inventory.stock_qty
    mislaid,   \* history: units that left the lines without going back to stock
    bays,      \* the active service_bays
    requests,  \* job_card_part_requests
    req        \* what each request being served has read so far

tables == <<jobs, lines, serial, stock, mislaid, bays, requests>>
vars == <<tables, req>>

Statuses == {"RECEIVED", "IN_PROGRESS", "WAITING_PARTS", "READY",
             "QC_PASSED", "QC_REWORK", "DELIVERED", "CANCELLED"}
Closed == {"DELIVERED", "CANCELLED"}

Authors == {"shop", "mechanic"}

Job == [status : Statuses,
        author : Authors,      \* who created it
        assigned : BOOLEAN,    \* a mechanic is to work on it
        completed : BOOLEAN,   \* completed_at is set
        bay : Bays \cup {None},
        passed : BOOLEAN]      \* history: it has been QC_PASSED

(* A mechanic's own job is assigned to him, the shop's to nobody.          *)
NewJob(author) ==
    [status |-> "RECEIVED", author |-> author, assigned |-> author = "mechanic",
     completed |-> FALSE, bay |-> None, passed |-> FALSE]

Idle == [op |-> "idle"]
MoveReq == [op : {"move"}, job : Nat, to : Statuses]

-----------------------------------------------------------------------------
MechanicTransitions ==
    [s \in Statuses |->
        CASE s = "RECEIVED" -> {"IN_PROGRESS"}
          [] s = "IN_PROGRESS" -> {"WAITING_PARTS", "READY"}
          [] s \in {"WAITING_PARTS", "QC_REWORK"} -> {"IN_PROGRESS"}
          [] OTHER -> {}]

OwnerTransitions_QCOptional ==
    [s \in Statuses |->
        CASE s = "RECEIVED" -> {"IN_PROGRESS", "CANCELLED"}
          [] s = "IN_PROGRESS" -> {"WAITING_PARTS", "READY", "CANCELLED"}
          [] s = "WAITING_PARTS" -> {"IN_PROGRESS", "CANCELLED"}
          [] s = "READY" -> {"QC_PASSED", "QC_REWORK", "DELIVERED"}
          [] s = "QC_REWORK" -> {"IN_PROGRESS"}
          [] s = "QC_PASSED" -> {"DELIVERED"}
          [] s \in Closed -> {}]

OwnerTransitions ==
    [s \in Statuses |->
        CASE s = "RECEIVED" -> {"IN_PROGRESS", "CANCELLED"}
          [] s = "IN_PROGRESS" -> {"WAITING_PARTS", "READY", "CANCELLED"}
          [] s = "WAITING_PARTS" -> {"IN_PROGRESS", "CANCELLED"}
          [] s = "READY" -> {"QC_PASSED", "QC_REWORK"}
          [] s = "QC_REWORK" -> {"IN_PROGRESS"}
          [] s = "QC_PASSED" -> {"DELIVERED"}
          [] s \in Closed -> {}]

(* POST /jobs of the shop and of the mechanic.                             *)
CreateJob(author) ==
    /\ Len(jobs) < MaxJobs
    /\ jobs' = Append(jobs, NewJob(author))
    /\ UNCHANGED <<lines, serial, stock, mislaid, bays, requests, req>>

(* PATCH /jobs/:id of the shop: whom it is assigned to is what anybody     *)
(* decides by.                                                             *)
EditJob(j, assigned) ==
    /\ jobs' = [jobs EXCEPT ![j].assigned = assigned]
    /\ UNCHANGED <<lines, serial, stock, mislaid, bays, requests, req>>

(* PATCH /jobs/:id/assign: the mechanic who created the job or has it      *)
(* gives it to one of his team, in one UPDATE ... WHERE.                   *)
Reassign(j) ==
    /\ jobs[j].assigned \/ jobs[j].author = "mechanic"
    /\ jobs' = [jobs EXCEPT ![j].assigned = TRUE]
    /\ UNCHANGED <<lines, serial, stock, mislaid, bays, requests, req>>

StartMove(c, j, to) ==
    /\ req[c].op = "idle"
    /\ req' = [req EXCEPT ![c] = [op |-> "move", job |-> j, to |-> to]]
    /\ UNCHANGED tables

(* loadOwnJob: a mechanic of the shop finds the jobs assigned to him.      *)
Own(j) == jobs[j].assigned

(* PATCH /jobs/:id/status of the shop, and of the mechanic.                *)
OwnerMove(c) ==
    \E j \in 1..Len(jobs) : \E to \in OwnerTransitions[jobs[j].status] : StartMove(c, j, to)

MechanicMove(c) ==
    \E j \in 1..Len(jobs) : \E to \in MechanicTransitions[jobs[j].status] :
        Own(j) /\ StartMove(c, j, to)

(* PATCH /jobs/:id/qc.                                                     *)
InspectJob(c) ==
    \E j \in 1..Len(jobs) : \E result \in {"QC_PASSED", "QC_REWORK"} :
        jobs[j].status = "READY" /\ StartMove(c, j, result)

(* PATCH /jobs/:id/deliver.                                                *)
DeliverJob(c) ==
    \E j \in 1..Len(jobs) : jobs[j].status = "QC_PASSED" /\ StartMove(c, j, "DELIVERED")

(* PATCH /jobs/:id/progress: READY_FOR_QC makes any open job READY; the    *)
(* other stages change nothing but the stage.                              *)
ReportReady(c) ==
    \E j \in 1..Len(jobs) :
        Own(j) /\ jobs[j].status \notin Closed \cup {"READY"} /\ StartMove(c, j, "READY")

Moved_ReworkReopens(job, to) ==
    [job EXCEPT !.status = to,
                !.completed = (@ /\ to # "IN_PROGRESS") \/ to = "READY",
                !.passed = @ \/ to = "QC_PASSED"]

(* completed_at is set the first time the job is READY and then kept.      *)
Moved(job, to) ==
    [job EXCEPT !.status = to,
                !.completed = @ \/ to = "READY",
                !.passed = @ \/ to = "QC_PASSED"]

(* UPDATE job_cards ... WHERE job_id, of each of them.                     *)
CommitMove(c) ==
    LET q == req[c] IN
    /\ q.op = "move"
    /\ jobs' = [jobs EXCEPT ![q.job] = Moved(@, q.to)]
    /\ req' = [req EXCEPT ![c] = Idle]
    /\ UNCHANGED <<lines, serial, stock, mislaid, bays, requests>>

MoveNext ==
    \/ \E author \in Authors : CreateJob(author)
    \/ \E j \in 1..Len(jobs) : Reassign(j) \/ \E assigned \in BOOLEAN : EditJob(j, assigned)
    \/ \E c \in Clients :
        OwnerMove(c) \/ MechanicMove(c) \/ InspectJob(c) \/ DeliverJob(c)
        \/ ReportReady(c) \/ CommitMove(c)
=============================================================================
