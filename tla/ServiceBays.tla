----------------------------- MODULE ServiceBays -----------------------------
(***************************************************************************)
(* routes/workshop/bays.js and the assignment of a bay to a job.           *)
(***************************************************************************)
EXTENDS JobCards

BayReq ==
    [op : {"assign"}, job : Nat, bay : Bays]
    \cup [op : {"deactivate"}, bay : Bays]

Occupied(b) == \E j \in 1..Len(jobs) : jobs[j].bay = b /\ jobs[j].status \notin Closed

(* PATCH /jobs/:id/bay: the bay is active when it is read.                 *)
BeginAssignBay(c) ==
    \E j \in 1..Len(jobs), b \in bays :
        /\ req[c].op = "idle"
        /\ req' = [req EXCEPT ![c] = [op |-> "assign", job |-> j, bay |-> b]]
        /\ UNCHANGED tables

CommitAssignBay(c) ==
    /\ req[c].op = "assign"
    /\ jobs' = [jobs EXCEPT ![req[c].job].bay = req[c].bay]
    /\ req' = [req EXCEPT ![c] = Idle]
    /\ UNCHANGED <<lines, serial, stock, mislaid, bays, requests>>

(* The same with a null bay.                                               *)
LeaveBay(j) ==
    /\ jobs' = [jobs EXCEPT ![j].bay = None]
    /\ UNCHANGED <<lines, serial, stock, mislaid, bays, requests, req>>

(* POST /bays, and PATCH /bays/:id with isActive: whatever stands in it.   *)
SetBayActive(b, active) ==
    /\ bays' = IF active THEN bays \cup {b} ELSE bays \ {b}
    /\ UNCHANGED <<jobs, lines, serial, stock, mislaid, requests, req>>

(* DELETE /bays/:id: refused while an open job stands in the bay.          *)
BeginDeactivate(c) ==
    \E b \in Bays :
        /\ req[c].op = "idle"
        /\ ~Occupied(b)
        /\ req' = [req EXCEPT ![c] = [op |-> "deactivate", bay |-> b]]
        /\ UNCHANGED tables

CommitDeactivate(c) ==
    /\ req[c].op = "deactivate"
    /\ bays' = bays \ {req[c].bay}
    /\ req' = [req EXCEPT ![c] = Idle]
    /\ UNCHANGED <<jobs, lines, serial, stock, mislaid, requests>>

BayNext ==
    \/ \E c \in Clients :
        BeginAssignBay(c) \/ CommitAssignBay(c) \/ BeginDeactivate(c) \/ CommitDeactivate(c)
    \/ \E j \in 1..Len(jobs) : LeaveBay(j)
    \/ \E b \in Bays, active \in BOOLEAN : SetBayActive(b, active)
=============================================================================
