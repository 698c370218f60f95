------------------------------ MODULE Workshop ------------------------------
(***************************************************************************)
(* Job cards, their lines and the bays they stand in, worked on by the     *)
(* shop and its mechanics at once, with what must be true of them.         *)
(***************************************************************************)
EXTENDS JobLines, ServiceBays, Functions

(* A check fails, a constraint refuses, or the process dies.               *)
Abandon(c) ==
    /\ req[c].op # "idle"
    /\ req' = [req EXCEPT ![c] = Idle]
    /\ UNCHANGED tables

Init ==
    /\ jobs = <<>>
    /\ lines = {}
    /\ serial = 0
    /\ stock = [p \in Parts |-> OpeningQty]
    /\ mislaid = [p \in Parts |-> 0]
    /\ bays = {}
    /\ requests = <<>>
    /\ req = [c \in Clients |-> Idle]

Next ==
    \/ MoveNext
    \/ LineNext
    \/ BayNext
    \/ \E c \in Clients : Abandon(c)

Spec == Init /\ [][Next]_vars

-----------------------------------------------------------------------------
(* The tables have their types, item ids are not given twice, and requests *)
(* and lines are about jobs that exist.  No stock is negative, although it *)
(* is compared before the transaction that takes it.                       *)
TypeOK ==
    /\ jobs \in Seq(Job)
    /\ serial \in Nat
    /\ stock \in [Parts -> Nat]
    /\ mislaid \in [Parts -> Int]
    /\ bays \subseteq Bays
    /\ requests \in Seq(PartRequest)
    /\ req \in [Clients -> {Idle} \cup MoveReq \cup LineReq \cup BayReq]
    /\ \A l \in lines : l \in Line /\ l.id <= serial /\ l.job \in 1..Len(jobs)
    /\ \A l, m \in lines : l.id = m.id => l = m
    /\ \A r \in 1..Len(requests) : requests[r].job \in 1..Len(jobs)
    /\ \A c \in Clients :
        /\ req[c].op \in {"move", "add", "assign"} => req[c].job \in 1..Len(jobs)

(* A job that has reached inspection has its completion date, in whatever  *)
(* order the shop's and the mechanic's stale updates and the progress      *)
(* reports land: the first of them to make it READY sets the date and none *)
(* takes it back (jobs.js 336, workshop.js 261, jobs.js 855).              *)
CompletedBeforeQC ==
    \A j \in 1..Len(jobs) :
        jobs[j].status \in {"READY", "QC_PASSED", "QC_REWORK", "DELIVERED"}
            => jobs[j].completed

(* No job is delivered that has never passed its inspection, although the  *)
(* status that delivery requires is compared on an earlier read            *)
(* (workshop.js: "Job must be QC_PASSED before delivery").                 *)
DeliveredPassedQC ==
    \A j \in 1..Len(jobs) : jobs[j].status = "DELIVERED" => jobs[j].passed

(* Removing lines never puts more of a part on the shelf than was taken    *)
(* from it (jobs.js 599: "Restore stock for inventory-linked parts").      *)
RestoredWasTaken == \A p \in Parts : mislaid[p] >= 0

(* The units of a part that stand on job cards and were taken from stock.  *)
OnJobs(p) == SumFunction([l \in {m \in lines : m.took /\ m.part = p} |-> l.qty])

(* Every unit of a part is on the shelf, on a job card, or was mislaid     *)
(* when the shop removed a line a mechanic had added or a mechanic one of  *)
(* the shop's: adding and removing lines at once, twice or after another   *)
(* request has removed them neither loses nor doubles a unit               *)
(* (jobs.js 536-555, 592-610).                                             *)
PartsAccounted ==
    \A p \in Parts : stock[p] + OnJobs(p) + mislaid[p] = OpeningQty
=============================================================================
