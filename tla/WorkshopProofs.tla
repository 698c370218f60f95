---------------------------- MODULE WorkshopProofs ----------------------------
(***************************************************************************)
(* Theorems about the workshop, for any number of job cards, parts, bays   *)
(* and concurrent requests.                                                *)
(***************************************************************************)
EXTENDS Workshop, Sums, TLAPS

Requests == {Idle} \cup MoveReq \cup LineReq \cup BayReq

(* What the status of a card says of its history.                          *)
Inspected == {"QC_PASSED", "QC_REWORK", "DELIVERED"}
Consistent(job) ==
    /\ job.status \in Inspected \cup {"READY"} => job.completed
    /\ job.status \in {"QC_PASSED", "DELIVERED"} => job.passed

(* A request that will move a card to its inspection or past it read a     *)
(* card that had come so far, and cards forget nothing.                    *)
Backed(q) ==
    q.op = "move" =>
        /\ q.to \in Inspected => jobs[q.job].completed
        /\ q.to = "DELIVERED" => jobs[q.job].passed

IInv ==
    /\ TypeOK
    /\ \A j \in 1..Len(jobs) : Consistent(jobs[j])
    /\ \A c \in Clients : Backed(req[c])

(* The shapes of a request.                                                *)
LEMMA RequestTypes ==
    ASSUME NEW q \in Requests
    PROVE  /\ q.op = "move" => q.to \in Statuses
           /\ q.op = "add" => q.part \in Parts \cup {None} /\ q.qty \in Qtys
           /\ q.op \in {"assign", "deactivate"} => q.bay \in Bays
BY DEF Requests, Idle, MoveReq, LineReq, BayReq

(* A request turns to something else.                                      *)
LEMMA RequestTurns ==
    ASSUME TypeOK, NEW c \in Clients, NEW q \in Requests,
           q.op \in {"move", "add", "assign"} => q.job \in 1..Len(jobs),
           req' = [req EXCEPT ![c] = q]
    PROVE  /\ req' \in [Clients -> Requests]
           /\ req'[c] = q
           /\ \A d \in Clients : d # c => req'[d] = req[d]
           /\ \A d \in Clients : req'[d].op \in {"move", "add", "assign"}
                                    => req'[d].job \in 1..Len(jobs)
<1>1. req \in [Clients -> Requests]
  BY DEF TypeOK, Requests
<1>2. /\ req' \in [Clients -> Requests]
      /\ req'[c] = q
      /\ \A d \in Clients : d # c => req'[d] = req[d]
  BY <1>1
<1> QED
  BY <1>2 DEF TypeOK

(* A card is changed, or one more is opened.                               *)
LEMMA CardChanges ==
    ASSUME TypeOK, NEW j \in 1..Len(jobs), NEW x \in Job,
           jobs' = [jobs EXCEPT ![j] = x]
    PROVE  /\ jobs' \in Seq(Job)
           /\ Len(jobs') = Len(jobs)
           /\ jobs'[j] = x
           /\ \A k \in 1..Len(jobs) : k # j => jobs'[k] = jobs[k]
<1>1. jobs \in Seq(Job)
  BY DEF TypeOK
<1> QED
  BY <1>1

LEMMA CardOpens ==
    ASSUME TypeOK, NEW x \in Job, jobs' = Append(jobs, x)
    PROVE  /\ jobs' \in Seq(Job)
           /\ Len(jobs') = Len(jobs) + 1
           /\ Len(jobs) \in Nat
           /\ jobs'[Len(jobs) + 1] = x
           /\ \A k \in 1..Len(jobs) : jobs'[k] = jobs[k]
<1>1. jobs \in Seq(Job)
  BY DEF TypeOK
<1> QED
  BY <1>1

(* What is left to show of a step that keeps the types: the cards stay     *)
(* consistent and forget nothing, and the requests are backed.             *)
LEMMA NothingForgotten ==
    ASSUME IInv, TypeOK',
           \A k \in 1..Len(jobs') : Consistent(jobs'[k]),
           \A k \in 1..Len(jobs) : /\ jobs[k].completed => jobs'[k].completed
                                   /\ jobs[k].passed => jobs'[k].passed,
           \A c \in Clients :
                \/ req'[c] = req[c]
                \/ Backed(req'[c]) /\ (req'[c].op = "move" => req'[c].job \in 1..Len(jobs))
    PROVE  IInv'
<1>1. ASSUME NEW c \in Clients
      PROVE  Backed(req[c])'
  <2>1. Backed(req'[c])
    BY DEF IInv
  <2> SUFFICES ASSUME req'[c].op = "move"
               PROVE  /\ req'[c].to \in Inspected => jobs'[req'[c].job].completed
                      /\ req'[c].to = "DELIVERED" => jobs'[req'[c].job].passed
    BY DEF Backed
  <2>2. req'[c].job \in 1..Len(jobs)
    <3>1. CASE req'[c] = req[c]
      BY <3>1 DEF IInv, TypeOK
    <3>2. CASE req'[c] # req[c]
      BY <3>2
    <3> QED
      BY <3>1, <3>2
  <2> QED
    BY <2>1, <2>2 DEF Backed
<1> QED
  BY <1>1 DEF IInv, Consistent

(* Nothing happens to the cards, and one request is not about to move one. *)
LEMMA CardsAlone ==
    ASSUME IInv, TypeOK', UNCHANGED jobs,
           \A c \in Clients : req'[c] = req[c] \/ req'[c].op # "move"
    PROVE  IInv'
BY NothingForgotten DEF IInv, Backed

LEMMA InitIInv == Init => IInv
<1> SUFFICES ASSUME Init PROVE IInv
  OBVIOUS
<1>1. jobs \in Seq(Job) /\ Len(jobs) = 0 /\ requests \in Seq(PartRequest) /\ Len(requests) = 0
  BY DEF Init
<1>2. TypeOK
  BY <1>1, JobCardsAssumption DEF Init, TypeOK, Idle
<1>3. \A c \in Clients : Backed(req[c])
  BY DEF Init, Idle, Backed
<1> QED
  BY <1>1, <1>2, <1>3 DEF IInv

-----------------------------------------------------------------------------
(* Moving a card along.                                                    *)
LEMMA StepStartMove ==
    ASSUME IInv, NEW c \in Clients, NEW j \in 1..Len(jobs), NEW to \in Statuses,
           StartMove(c, j, to),
           to \in Inspected => jobs[j].completed,
           to = "DELIVERED" => jobs[j].passed
    PROVE  IInv'
<1> DEFINE q == [op |-> "move", job |-> j, to |-> to]
<1>1. q \in Requests /\ Backed(q)
  <2>1. j \in Nat
    OBVIOUS
  <2> QED
    BY <2>1 DEF Requests, MoveReq, Backed
<1>2. TypeOK /\ UNCHANGED tables /\ req' = [req EXCEPT ![c] = q]
  BY DEF IInv, StartMove
<1>3. /\ req' \in [Clients -> Requests]
      /\ req'[c] = q
      /\ \A d \in Clients : d # c => req'[d] = req[d]
      /\ \A d \in Clients : req'[d].op \in {"move", "add", "assign"}
                               => req'[d].job \in 1..Len(jobs)
  BY <1>1, <1>2, RequestTurns
<1>4. TypeOK'
  BY <1>2, <1>3 DEF TypeOK, tables, Requests
<1> QED
  BY <1>1, <1>2, <1>3, <1>4, NothingForgotten DEF IInv, tables

LEMMA StepMoveRead ==
    ASSUME IInv, NEW c \in Clients,
           \/ OwnerMove(c) \/ MechanicMove(c) \/ InspectJob(c) \/ DeliverJob(c)
           \/ ReportReady(c)
    PROVE  IInv'
<1>1. ASSUME NEW j \in 1..Len(jobs)
      PROVE  jobs[j].status \in Statuses /\ Consistent(jobs[j])
  <2>1. jobs[j] \in Job
    BY DEF IInv, TypeOK
  <2> QED
    BY <2>1 DEF IInv, Job
<1>2. CASE OwnerMove(c)
  <2>1. PICK j \in 1..Len(jobs) : \E to \in OwnerTransitions[jobs[j].status] : StartMove(c, j, to)
    BY <1>2 DEF OwnerMove
  <2>2. PICK to \in OwnerTransitions[jobs[j].status] : StartMove(c, j, to)
    BY <2>1
  <2>3. /\ to \in Statuses
        /\ to \in Inspected => jobs[j].completed
        /\ to = "DELIVERED" => jobs[j].passed
    BY <1>1 DEF OwnerTransitions, Statuses, Closed, Inspected, Consistent
  <2> QED
    BY <2>2, <2>3, StepStartMove
<1>3. CASE MechanicMove(c)
  <2>1. PICK j \in 1..Len(jobs) : \E to \in MechanicTransitions[jobs[j].status] : StartMove(c, j, to)
    BY <1>3 DEF MechanicMove
  <2>2. PICK to \in MechanicTransitions[jobs[j].status] : StartMove(c, j, to)
    BY <2>1
  <2>3. to \in Statuses /\ to \notin Inspected /\ to # "DELIVERED"
    BY <1>1 DEF MechanicTransitions, Statuses, Inspected
  <2> QED
    BY <2>2, <2>3, StepStartMove
<1>4. CASE InspectJob(c)
  <2>1. PICK j \in 1..Len(jobs), to \in {"QC_PASSED", "QC_REWORK"} :
            jobs[j].status = "READY" /\ StartMove(c, j, to)
    BY <1>4 DEF InspectJob
  <2>2. to \in Statuses /\ to # "DELIVERED" /\ jobs[j].completed
    BY <1>1, <2>1 DEF Statuses, Consistent
  <2> QED
    BY <2>1, <2>2, StepStartMove
<1>5. CASE DeliverJob(c)
  <2>1. PICK j \in 1..Len(jobs) : jobs[j].status = "QC_PASSED" /\ StartMove(c, j, "DELIVERED")
    BY <1>5 DEF DeliverJob
  <2>2. "DELIVERED" \in Statuses /\ jobs[j].completed /\ jobs[j].passed
    BY <1>1, <2>1 DEF Statuses, Consistent, Inspected
  <2> QED
    BY <2>1, <2>2, StepStartMove
<1>6. CASE ReportReady(c)
  <2>1. PICK j \in 1..Len(jobs) : StartMove(c, j, "READY")
    BY <1>6 DEF ReportReady
  <2>2. "READY" \in Statuses /\ "READY" \notin Inspected
    BY DEF Statuses, Inspected
  <2> QED
    BY <2>1, <2>2, StepStartMove
<1> QED
  BY <1>2, <1>3, <1>4, <1>5, <1>6

LEMMA StepCommitMove ==
    ASSUME IInv, NEW c \in Clients, CommitMove(c)
    PROVE  IInv'
<1> DEFINE q == req[c]
           x == Moved(jobs[q.job], q.to)
<1>1. /\ TypeOK
      /\ q.op = "move"
      /\ jobs' = [jobs EXCEPT ![q.job] = Moved(@, q.to)]
      /\ req' = [req EXCEPT ![c] = Idle]
      /\ UNCHANGED <<lines, serial, stock, mislaid, bays, requests>>
  BY DEF CommitMove, IInv
<1>2. q.job \in 1..Len(jobs) /\ q.to \in Statuses /\ Backed(q)
  BY <1>1, RequestTypes DEF IInv, TypeOK, Requests
<1>3. jobs[q.job] \in Job
  BY <1>1, <1>2 DEF TypeOK
<1>4. /\ x \in Job
      /\ jobs[q.job].completed => x.completed
      /\ jobs[q.job].passed => x.passed
      /\ x.status = q.to
      /\ q.to = "READY" => x.completed
      /\ q.to = "QC_PASSED" => x.passed
  BY <1>2, <1>3 DEF Moved, Job
<1>5. Consistent(x)
  BY <1>1, <1>2, <1>4 DEF Consistent, Backed, Inspected
<1>6. jobs' = [jobs EXCEPT ![q.job] = x]
  BY <1>1, <1>2
<1>7. /\ jobs' \in Seq(Job)
      /\ Len(jobs') = Len(jobs)
      /\ jobs'[q.job] = x
      /\ \A k \in 1..Len(jobs) : k # q.job => jobs'[k] = jobs[k]
  BY <1>1, <1>2, <1>4, <1>6, CardChanges
<1>8. /\ req' \in [Clients -> Requests]
      /\ req'[c] = Idle
      /\ \A d \in Clients : d # c => req'[d] = req[d]
      /\ \A d \in Clients : req'[d].op \in {"move", "add", "assign"}
                               => req'[d].job \in 1..Len(jobs)
  <2>1. Idle \in Requests /\ Idle.op = "idle"
    BY DEF Requests, Idle
  <2> QED
    BY <1>1, <2>1, RequestTurns
<1>9. TypeOK'
  BY <1>1, <1>7, <1>8 DEF TypeOK, Requests
<1>10. \A k \in 1..Len(jobs') : Consistent(jobs'[k])
  BY <1>5, <1>7 DEF IInv
<1>11. \A d \in Clients : req'[d] = req[d] \/ (Backed(req'[d]) /\ req'[d].op # "move")
  BY <1>8 DEF Backed, Idle
<1> QED
  BY <1>4, <1>7, <1>9, <1>10, <1>11, NothingForgotten

-----------------------------------------------------------------------------
(* A request ends.                                                         *)
LEMMA RequestEnds ==
    ASSUME TypeOK, NEW c \in Clients, req' = [req EXCEPT ![c] = Idle]
    PROVE  /\ req' \in [Clients -> Requests]
           /\ \A d \in Clients : req'[d] = req[d] \/ req'[d].op # "move"
           /\ \A d \in Clients : req'[d].op \in {"move", "add", "assign"}
                                    => req'[d].job \in 1..Len(jobs)
<1>1. Idle \in Requests /\ Idle.op = "idle"
  BY DEF Requests, Idle
<1>2. /\ req' \in [Clients -> Requests]
      /\ req'[c] = Idle
      /\ \A d \in Clients : d # c => req'[d] = req[d]
      /\ \A d \in Clients : req'[d].op \in {"move", "add", "assign"}
                               => req'[d].job \in 1..Len(jobs)
  BY <1>1, RequestTurns
<1> QED
  BY <1>1, <1>2

(* Whom a card is assigned to and which bay it stands in decide nothing.   *)
LEMMA CardEdited ==
    ASSUME IInv, NEW j \in 1..Len(jobs), NEW x \in Job,
           x.status = jobs[j].status, x.completed = jobs[j].completed,
           x.passed = jobs[j].passed,
           jobs' = [jobs EXCEPT ![j] = x],
           UNCHANGED <<lines, serial, stock, mislaid, bays, requests>>,
           UNCHANGED req \/ \E c \in Clients : req' = [req EXCEPT ![c] = Idle]
    PROVE  IInv'
<1>1. TypeOK
  BY DEF IInv
<1>2. /\ jobs' \in Seq(Job)
      /\ Len(jobs') = Len(jobs)
      /\ jobs'[j] = x
      /\ \A k \in 1..Len(jobs) : k # j => jobs'[k] = jobs[k]
  BY <1>1, CardChanges
<1>3. /\ req' \in [Clients -> Requests]
      /\ \A d \in Clients : req'[d] = req[d] \/ req'[d].op # "move"
      /\ \A d \in Clients : req'[d].op \in {"move", "add", "assign"}
                               => req'[d].job \in 1..Len(jobs)
  <2>1. CASE UNCHANGED req
    BY <1>1, <2>1 DEF TypeOK, Requests
  <2>2. CASE \E c \in Clients : req' = [req EXCEPT ![c] = Idle]
    BY <1>1, <2>2, RequestEnds
  <2> QED
    BY <2>1, <2>2
<1>4. TypeOK'
  BY <1>1, <1>2, <1>3 DEF TypeOK, Requests
<1>5. \A k \in 1..Len(jobs') : Consistent(jobs'[k])
  BY <1>2 DEF IInv, Consistent
<1>6. \A d \in Clients : req'[d] = req[d] \/ (Backed(req'[d]) /\ req'[d].op # "move")
  BY <1>3 DEF Backed
<1> QED
  BY <1>2, <1>4, <1>5, <1>6, NothingForgotten

LEMMA StepCard ==
    ASSUME IInv, NEW j \in 1..Len(jobs),
           \/ \E assigned \in BOOLEAN : EditJob(j, assigned)
           \/ Reassign(j)
           \/ LeaveBay(j)
    PROVE  IInv'
<1>1. jobs[j] \in Job
  BY DEF IInv, TypeOK
<1>2. ASSUME NEW assigned \in BOOLEAN, EditJob(j, assigned) PROVE IInv'
  <2>1. [jobs[j] EXCEPT !.assigned = assigned] \in Job
    BY <1>1 DEF Job
  <2>2. jobs' = [jobs EXCEPT ![j] = [jobs[j] EXCEPT !.assigned = assigned]]
    BY <1>2 DEF EditJob
  <2>3. UNCHANGED <<lines, serial, stock, mislaid, bays, requests>> /\ UNCHANGED req
    BY <1>2 DEF EditJob
  <2> QED
    BY <1>1, <2>1, <2>2, <2>3, CardEdited DEF Job
<1>3. CASE Reassign(j)
  <2>1. [jobs[j] EXCEPT !.assigned = TRUE] \in Job
    BY <1>1 DEF Job
  <2>2. jobs' = [jobs EXCEPT ![j] = [jobs[j] EXCEPT !.assigned = TRUE]]
    BY <1>3 DEF Reassign
  <2>3. UNCHANGED <<lines, serial, stock, mislaid, bays, requests>> /\ UNCHANGED req
    BY <1>3 DEF Reassign
  <2> QED
    BY <1>1, <2>1, <2>2, <2>3, CardEdited DEF Job
<1>4. CASE LeaveBay(j)
  <2>1. [jobs[j] EXCEPT !.bay = None] \in Job
    BY <1>1 DEF Job
  <2>2. jobs' = [jobs EXCEPT ![j] = [jobs[j] EXCEPT !.bay = None]]
    BY <1>4 DEF LeaveBay
  <2>3. UNCHANGED <<lines, serial, stock, mislaid, bays, requests>> /\ UNCHANGED req
    BY <1>4 DEF LeaveBay
  <2> QED
    BY <1>1, <2>1, <2>2, <2>3, CardEdited DEF Job
<1> QED
  BY <1>2, <1>3, <1>4

LEMMA StepCommitAssignBay ==
    ASSUME IInv, NEW c \in Clients, CommitAssignBay(c)
    PROVE  IInv'
<1> DEFINE q == req[c]
           x == [jobs[q.job] EXCEPT !.bay = q.bay]
<1>1. q.op = "assign" /\ q \in Requests
  BY DEF CommitAssignBay, IInv, TypeOK, Requests
<1>2. q.job \in 1..Len(jobs) /\ q.bay \in Bays
  BY <1>1, RequestTypes DEF IInv, TypeOK
<1>3. jobs[q.job] \in Job
  BY <1>2 DEF IInv, TypeOK
<1>4. x \in Job
  BY <1>2, <1>3 DEF Job
<1>5. /\ jobs' = [jobs EXCEPT ![q.job] = x]
      /\ UNCHANGED <<lines, serial, stock, mislaid, bays, requests>>
      /\ req' = [req EXCEPT ![c] = Idle]
  BY DEF CommitAssignBay
<1> QED
  BY <1>2, <1>3, <1>4, <1>5, CardEdited DEF Job

LEMMA StepCreateJob ==
    ASSUME IInv, NEW author \in Authors, CreateJob(author)
    PROVE  IInv'
<1> DEFINE x == NewJob(author)
<1>1. x \in Job /\ Consistent(x)
  BY DEF NewJob, Job, Consistent, Statuses, Inspected, Authors
<1>2. TypeOK /\ jobs' = Append(jobs, x)
      /\ UNCHANGED <<lines, serial, stock, mislaid, bays, requests, req>>
  BY DEF IInv, CreateJob
<1>3. /\ jobs' \in Seq(Job)
      /\ Len(jobs') = Len(jobs) + 1
      /\ Len(jobs) \in Nat
      /\ jobs'[Len(jobs) + 1] = x
      /\ \A k \in 1..Len(jobs) : jobs'[k] = jobs[k]
  BY <1>1, <1>2, CardOpens
<1>4. \A k \in 1..Len(jobs) : k \in 1..Len(jobs')
  BY <1>3
<1>5. TypeOK'
  BY <1>2, <1>3, <1>4 DEF TypeOK
<1>6. \A k \in 1..Len(jobs') : Consistent(jobs'[k])
  <2>1. \A k \in 1..Len(jobs') : k \in 1..Len(jobs) \/ k = Len(jobs) + 1
    BY <1>3
  <2> QED
    BY <1>1, <1>3, <2>1 DEF IInv
<1> QED
  BY <1>2, <1>3, <1>5, <1>6, NothingForgotten

-----------------------------------------------------------------------------
(* The lines of the cards.  A line's id is never given twice because ids   *)
(* only rise.                                                              *)
LEMMA LineAdded ==
    ASSUME TypeOK, NEW j \in 1..Len(jobs), NEW p \in Parts \cup {None}, NEW n \in Qtys,
           NEW took \in BOOLEAN, AddLine(j, p, n, took)
    PROVE  /\ serial' \in Nat
           /\ \A l \in lines' : l \in Line /\ l.id <= serial' /\ l.job \in 1..Len(jobs)
           /\ \A l, m \in lines' : l.id = m.id => l = m
<1> DEFINE new == [id |-> serial + 1, job |-> j, part |-> p, qty |-> n, took |-> took]
<1>1. serial \in Nat /\ serial' = serial + 1 /\ lines' = lines \cup {new}
  BY DEF AddLine, TypeOK
<1>2. new \in Line /\ new.id = serial + 1 /\ new.job \in 1..Len(jobs)
  BY <1>1 DEF Line
<1>3. \A l \in lines : l \in Line /\ l.id \in Nat /\ l.id <= serial /\ l.job \in 1..Len(jobs)
  BY DEF TypeOK, Line
<1>4. \A l \in lines' : l \in Line /\ l.id <= serial' /\ l.job \in 1..Len(jobs)
  BY <1>1, <1>2, <1>3
<1>5. \A l, m \in lines' : l.id = m.id => l = m
  <2>1. \A l \in lines : l.id # new.id
    BY <1>1, <1>2, <1>3
  <2> QED
    BY <1>1, <2>1 DEF TypeOK
<1> QED
  BY <1>1, <1>4, <1>5

LEMMA StepBeginLine ==
    ASSUME IInv, NEW c \in Clients, BeginAddPart(c) \/ BeginRemovePart(c)
    PROVE  IInv'
<1>1. PICK q \in LineReq :
        /\ q.op = "add" => q.job \in 1..Len(jobs)
        /\ req' = [req EXCEPT ![c] = q]
        /\ UNCHANGED tables
  <2>1. CASE BeginAddPart(c)
    <3>1. PICK j \in 1..Len(jobs), p \in Parts \cup {None}, n \in Qtys :
            /\ req' = [req EXCEPT ![c] = [op |-> "add", job |-> j, part |-> p, qty |-> n]]
            /\ UNCHANGED tables
      BY <2>1 DEF BeginAddPart
    <3>2. [op |-> "add", job |-> j, part |-> p, qty |-> n] \in LineReq
      BY DEF LineReq
    <3> QED
      BY <3>1, <3>2
  <2>2. CASE BeginRemovePart(c)
    <3>1. PICK l \in lines :
            /\ req' = [req EXCEPT ![c] = [op |-> "remove", line |-> l.id]]
            /\ UNCHANGED tables
      BY <2>2 DEF BeginRemovePart
    <3>2. [op |-> "remove", line |-> l.id] \in LineReq
      BY DEF LineReq, IInv, TypeOK, Line
    <3> QED
      BY <3>1, <3>2
  <2> QED
    BY <2>1, <2>2
<1>2. q.op \in {"add", "remove"} /\ q \in Requests
  BY DEF LineReq, Requests
<1>3. /\ req' \in [Clients -> Requests]
      /\ req'[c] = q
      /\ \A d \in Clients : d # c => req'[d] = req[d]
      /\ \A d \in Clients : req'[d].op \in {"move", "add", "assign"}
                               => req'[d].job \in 1..Len(jobs)
  BY <1>1, <1>2, RequestTurns DEF IInv
<1>4. TypeOK'
  BY <1>1, <1>3 DEF IInv, TypeOK, tables, Requests
<1> QED
  BY <1>1, <1>2, <1>3, <1>4, CardsAlone DEF tables

LEMMA StepCommitAddPart ==
    ASSUME IInv, NEW c \in Clients, CommitAddPart(c)
    PROVE  IInv'
<1> DEFINE q == req[c]
<1>1. /\ TypeOK
      /\ q.op = "add"
      /\ q \in Requests
      /\ AddLine(q.job, q.part, q.qty, q.part # None)
      /\ req' = [req EXCEPT ![c] = Idle]
      /\ UNCHANGED <<jobs, mislaid, bays, requests>>
  BY DEF CommitAddPart, IInv, TypeOK, Requests
<1>2. q.job \in 1..Len(jobs) /\ q.part \in Parts \cup {None} /\ q.qty \in Qtys
  BY <1>1, RequestTypes DEF TypeOK
<1>3. stock' \in [Parts -> Nat]
  <2>1. CASE q.part = None
    BY <1>1, <2>1 DEF CommitAddPart, TypeOK
  <2>2. CASE q.part # None
    <3>1. q.part \in Parts /\ q.qty \in Nat /\ stock[q.part] \in Nat
      BY <1>1, <1>2, <2>2, JobLinesAssumption DEF TypeOK
    <3>2. stock[q.part] >= q.qty /\ stock' = [stock EXCEPT ![q.part] = @ - q.qty]
      BY <2>2 DEF CommitAddPart, Enough
    <3>3. stock[q.part] - q.qty \in Nat
      BY <3>1, <3>2
    <3> QED
      BY <1>1, <3>2, <3>3 DEF TypeOK
  <2> QED
    BY <2>1, <2>2
<1>4. /\ serial' \in Nat
      /\ \A l \in lines' : l \in Line /\ l.id <= serial' /\ l.job \in 1..Len(jobs)
      /\ \A l, m \in lines' : l.id = m.id => l = m
  BY <1>1, <1>2, LineAdded
<1>5. TypeOK'
  BY <1>1, <1>3, <1>4, RequestEnds DEF TypeOK, Requests
<1> QED
  BY <1>1, <1>5, RequestEnds, CardsAlone

LEMMA StepCommitRemovePart ==
    ASSUME IInv, NEW c \in Clients, CommitRemovePart(c)
    PROVE  IInv'
<1>1. PICK l \in lines : lines' = lines \ {l} /\ RestoreStock(l)
  BY DEF CommitRemovePart
<1>2. /\ TypeOK
      /\ req' = [req EXCEPT ![c] = Idle]
      /\ UNCHANGED <<jobs, serial, bays, requests>>
  BY DEF CommitRemovePart, IInv
<1>3. l.part \in Parts \cup {None} /\ l.qty \in Nat
  BY <1>2, JobLinesAssumption DEF TypeOK, Line
<1>4. stock' \in [Parts -> Nat] /\ mislaid' \in [Parts -> Int]
  <2>1. CASE l.part = None
    BY <1>1, <1>2, <2>1 DEF RestoreStock, TypeOK
  <2>2. CASE l.part # None
    <3>1. /\ stock' = [stock EXCEPT ![l.part] = @ + l.qty]
          /\ mislaid' = IF l.took THEN mislaid ELSE [mislaid EXCEPT ![l.part] = @ - l.qty]
      BY <1>1, <2>2 DEF RestoreStock
    <3>2. /\ l.part \in Parts
          /\ stock \in [Parts -> Nat] /\ stock[l.part] \in Nat
          /\ mislaid \in [Parts -> Int] /\ mislaid[l.part] \in Int
      BY <1>2, <1>3, <2>2 DEF TypeOK
    <3>3. stock[l.part] + l.qty \in Nat /\ mislaid[l.part] - l.qty \in Int
      BY <1>3, <3>2
    <3>4. stock' \in [Parts -> Nat]
      BY <3>1, <3>2, <3>3
    <3>5. mislaid' \in [Parts -> Int]
      BY <3>1, <3>2, <3>3
    <3> QED
      BY <3>4, <3>5
  <2> QED
    BY <2>1, <2>2
<1>5. TypeOK'
  BY <1>1, <1>2, <1>4, RequestEnds DEF TypeOK, Requests
<1> QED
  BY <1>2, <1>5, RequestEnds, CardsAlone

LEMMA StepOwnerAddLine ==
    ASSUME IInv, NEW j \in 1..Len(jobs), NEW p \in Parts \cup {None}, NEW n \in Qtys,
           OwnerAddLine(j, p, n)
    PROVE  IInv'
<1>1. /\ TypeOK
      /\ AddLine(j, p, n, FALSE)
      /\ UNCHANGED <<jobs, stock, mislaid, bays, requests, req>>
  BY DEF OwnerAddLine, IInv
<1>2. /\ serial' \in Nat
      /\ \A l \in lines' : l \in Line /\ l.id <= serial' /\ l.job \in 1..Len(jobs)
      /\ \A l, m \in lines' : l.id = m.id => l = m
  BY <1>1, LineAdded
<1>3. TypeOK'
  BY <1>1, <1>2 DEF TypeOK
<1> QED
  BY <1>1, <1>3, CardsAlone

LEMMA StepOwnerRemoveLine ==
    ASSUME IInv, NEW l \in lines, OwnerRemoveLine(l)
    PROVE  IInv'
<1>1. /\ TypeOK
      /\ lines' = lines \ {l}
      /\ mislaid' = IF l.took THEN [mislaid EXCEPT ![l.part] = @ + l.qty] ELSE mislaid
      /\ UNCHANGED <<jobs, serial, stock, bays, requests, req>>
  BY DEF OwnerRemoveLine, IInv
<1>2. l.qty \in Nat /\ mislaid \in [Parts -> Int]
  BY <1>1, JobLinesAssumption DEF TypeOK, Line
<1>3. mislaid' \in [Parts -> Int]
  <2>1. CASE l.part \in Parts
    <3>1. mislaid[l.part] + l.qty \in Int
      BY <1>2, <2>1
    <3> QED
      BY <1>1, <1>2, <3>1
  <2>2. CASE l.part \notin Parts
    BY <1>1, <1>2, <2>2
  <2> QED
    BY <2>1, <2>2
<1>4. TypeOK'
  BY <1>1, <1>3 DEF TypeOK
<1> QED
  BY <1>1, <1>4, CardsAlone

(* The requests for parts, which nothing else reads.                       *)
LEMMA StepRequests ==
    ASSUME IInv,
           \/ \E j \in 1..Len(jobs) : RequestPart(j)
           \/ \E r \in 1..Len(requests), d \in Verdicts : ReviewRequest(r, d) \/ LogCall(r, d)
    PROVE  IInv'
<1>1. TypeOK /\ requests \in Seq(PartRequest)
  BY DEF IInv, TypeOK
<1>2. /\ UNCHANGED <<jobs, lines, serial, stock, mislaid, bays, req>>
      /\ requests' \in Seq(PartRequest)
      /\ \A r \in 1..Len(requests') : requests'[r].job \in 1..Len(jobs)
  <2>1. CASE \E j \in 1..Len(jobs) : RequestPart(j)
    <3>1. PICK j \in 1..Len(jobs) : RequestPart(j)
      BY <2>1
    <3> DEFINE x == [job |-> j, review |-> "PENDING", customer |-> "PENDING"]
    <3>2. x \in PartRequest
      BY DEF PartRequest, Decisions
    <3>3. requests' = Append(requests, x)
          /\ UNCHANGED <<jobs, lines, serial, stock, mislaid, bays, req>>
      BY <3>1 DEF RequestPart
    <3>4. /\ requests' \in Seq(PartRequest)
          /\ Len(requests') = Len(requests) + 1
          /\ Len(requests) \in Nat
          /\ requests'[Len(requests) + 1] = x
          /\ \A r \in 1..Len(requests) : requests'[r] = requests[r]
      BY <1>1, <3>2, <3>3
    <3>5. ASSUME NEW r \in 1..Len(requests') PROVE requests'[r].job \in 1..Len(jobs)
      <4>1. CASE r = Len(requests) + 1
        BY <3>4, <4>1
      <4>2. CASE r # Len(requests) + 1
        <5>1. r \in 1..Len(requests)
          BY <3>4, <4>2
        <5> QED
          BY <1>1, <3>4, <5>1 DEF TypeOK
      <4> QED
        BY <4>1, <4>2
    <3> QED
      BY <3>3, <3>4, <3>5
  <2>2. ASSUME NEW r \in 1..Len(requests), NEW d \in Verdicts,
               ReviewRequest(r, d) \/ LogCall(r, d)
        PROVE  /\ UNCHANGED <<jobs, lines, serial, stock, mislaid, bays, req>>
               /\ requests' \in Seq(PartRequest)
               /\ \A k \in 1..Len(requests') : requests'[k].job \in 1..Len(jobs)
    <3>1. requests[r] \in PartRequest /\ d \in Decisions
      BY <1>1 DEF Decisions
    <3>2. PICK x \in PartRequest :
            /\ x.job = requests[r].job
            /\ requests' = [requests EXCEPT ![r] = x]
            /\ UNCHANGED <<jobs, lines, serial, stock, mislaid, bays, req>>
      <4>1. CASE ReviewRequest(r, d)
        <5>1. [requests[r] EXCEPT !.review = d] \in PartRequest
          BY <3>1 DEF PartRequest
        <5>2. requests' = [requests EXCEPT ![r] = [requests[r] EXCEPT !.review = d]]
              /\ UNCHANGED <<jobs, lines, serial, stock, mislaid, bays, req>>
          BY <4>1 DEF ReviewRequest
        <5> QED
          BY <3>1, <5>1, <5>2 DEF PartRequest
      <4>2. CASE LogCall(r, d)
        <5>1. [requests[r] EXCEPT !.customer = d] \in PartRequest
          BY <3>1 DEF PartRequest
        <5>2. requests' = [requests EXCEPT ![r] = [requests[r] EXCEPT !.customer = d]]
              /\ UNCHANGED <<jobs, lines, serial, stock, mislaid, bays, req>>
          BY <4>2 DEF LogCall
        <5> QED
          BY <3>1, <5>1, <5>2 DEF PartRequest
      <4> QED
        BY <2>2, <4>1, <4>2
    <3>3. /\ requests' \in Seq(PartRequest)
          /\ Len(requests') = Len(requests)
          /\ requests'[r] = x
          /\ \A k \in 1..Len(requests) : k # r => requests'[k] = requests[k]
      BY <1>1, <3>2
    <3> QED
      BY <1>1, <3>2, <3>3 DEF TypeOK
  <2> QED
    BY <2>1, <2>2
<1>3. TypeOK'
  BY <1>1, <1>2 DEF TypeOK
<1> QED
  BY <1>2, <1>3, CardsAlone

-----------------------------------------------------------------------------
(* The bays.                                                               *)
LEMMA StepBeginBay ==
    ASSUME IInv, NEW c \in Clients, BeginAssignBay(c) \/ BeginDeactivate(c)
    PROVE  IInv'
<1>1. PICK q \in BayReq :
        /\ q.op = "assign" => q.job \in 1..Len(jobs)
        /\ req' = [req EXCEPT ![c] = q]
        /\ UNCHANGED tables
  <2>1. CASE BeginAssignBay(c)
    <3>1. PICK j \in 1..Len(jobs), b \in bays :
            /\ req' = [req EXCEPT ![c] = [op |-> "assign", job |-> j, bay |-> b]]
            /\ UNCHANGED tables
      BY <2>1 DEF BeginAssignBay
    <3>2. [op |-> "assign", job |-> j, bay |-> b] \in BayReq
      BY DEF BayReq, IInv, TypeOK
    <3> QED
      BY <3>1, <3>2
  <2>2. CASE BeginDeactivate(c)
    <3>1. PICK b \in Bays :
            /\ req' = [req EXCEPT ![c] = [op |-> "deactivate", bay |-> b]]
            /\ UNCHANGED tables
      BY <2>2 DEF BeginDeactivate
    <3>2. [op |-> "deactivate", bay |-> b] \in BayReq
      BY DEF BayReq
    <3> QED
      BY <3>1, <3>2
  <2> QED
    BY <2>1, <2>2
<1>2. q.op \in {"assign", "deactivate"} /\ q \in Requests
  BY DEF BayReq, Requests
<1>3. /\ req' \in [Clients -> Requests]
      /\ req'[c] = q
      /\ \A d \in Clients : d # c => req'[d] = req[d]
      /\ \A d \in Clients : req'[d].op \in {"move", "add", "assign"}
                               => req'[d].job \in 1..Len(jobs)
  BY <1>1, <1>2, RequestTurns DEF IInv
<1>4. TypeOK'
  BY <1>1, <1>3 DEF IInv, TypeOK, tables, Requests
<1> QED
  BY <1>1, <1>2, <1>3, <1>4, CardsAlone DEF tables

LEMMA StepBays ==
    ASSUME IInv,
           \/ \E c \in Clients : CommitDeactivate(c)
           \/ \E b \in Bays, active \in BOOLEAN : SetBayActive(b, active)
    PROVE  IInv'
<1>1. TypeOK
  BY DEF IInv
<1>2. ASSUME NEW c \in Clients, CommitDeactivate(c) PROVE IInv'
  <2>1. /\ bays' = bays \ {req[c].bay}
        /\ req' = [req EXCEPT ![c] = Idle]
        /\ UNCHANGED <<jobs, lines, serial, stock, mislaid, requests>>
    BY <1>2 DEF CommitDeactivate
  <2>2. TypeOK'
    BY <1>1, <2>1, RequestEnds DEF TypeOK, Requests
  <2> QED
    BY <1>1, <2>1, <2>2, RequestEnds, CardsAlone
<1>3. ASSUME NEW b \in Bays, NEW active \in BOOLEAN, SetBayActive(b, active) PROVE IInv'
  <2>1. TypeOK'
    BY <1>1, <1>3 DEF TypeOK, SetBayActive
  <2> QED
    BY <1>3, <2>1, CardsAlone DEF SetBayActive
<1> QED
  BY <1>2, <1>3

LEMMA StepAbandon ==
    ASSUME IInv, NEW c \in Clients, Abandon(c)
    PROVE  IInv'
<1>1. TypeOK /\ UNCHANGED tables /\ req' = [req EXCEPT ![c] = Idle]
  BY DEF IInv, Abandon
<1>2. TypeOK'
  BY <1>1, RequestEnds DEF TypeOK, Requests, tables
<1> QED
  BY <1>1, <1>2, RequestEnds, CardsAlone DEF tables

-----------------------------------------------------------------------------
LEMMA StepIInv == IInv /\ [Next]_vars => IInv'
<1> SUFFICES ASSUME IInv, [Next]_vars PROVE IInv'
  OBVIOUS
<1>1. CASE MoveNext
  <2>1. ASSUME NEW c \in Clients,
               \/ OwnerMove(c) \/ MechanicMove(c) \/ InspectJob(c) \/ DeliverJob(c)
               \/ ReportReady(c) \/ CommitMove(c)
        PROVE  IInv'
    BY <2>1, StepMoveRead, StepCommitMove
  <2>2. ASSUME NEW j \in 1..Len(jobs),
               Reassign(j) \/ \E assigned \in BOOLEAN : EditJob(j, assigned)
        PROVE  IInv'
    BY <2>2, StepCard
  <2> QED
    BY <1>1, <2>1, <2>2, StepCreateJob DEF MoveNext
<1>2. CASE LineNext
  <2>1. ASSUME NEW c \in Clients,
               BeginAddPart(c) \/ CommitAddPart(c) \/ BeginRemovePart(c) \/ CommitRemovePart(c)
        PROVE  IInv'
    BY <2>1, StepBeginLine, StepCommitAddPart, StepCommitRemovePart
  <2> QED
    BY <1>2, <2>1, StepOwnerAddLine, StepOwnerRemoveLine, StepRequests DEF LineNext
<1>3. CASE BayNext
  <2>1. ASSUME NEW c \in Clients,
               \/ BeginAssignBay(c) \/ CommitAssignBay(c) \/ BeginDeactivate(c)
               \/ CommitDeactivate(c)
        PROVE  IInv'
    BY <2>1, StepBeginBay, StepCommitAssignBay, StepBays
  <2>2. ASSUME NEW j \in 1..Len(jobs), LeaveBay(j) PROVE IInv'
    BY <2>2, StepCard
  <2> QED
    BY <1>3, <2>1, <2>2, StepBays DEF BayNext
<1>4. CASE \E c \in Clients : Abandon(c)
  BY <1>4, StepAbandon
<1>5. CASE UNCHANGED vars
  BY <1>5 DEF IInv, TypeOK, Consistent, Backed, vars, tables
<1> QED
  BY <1>1, <1>2, <1>3, <1>4, <1>5 DEF Next

LEMMA Inductive == Spec => []IInv
<1>1. Init => IInv
  BY InitIInv
<1>2. IInv /\ [Next]_vars => IInv'
  BY StepIInv
<1> QED
  BY <1>1, <1>2, PTL DEF Spec

(* The workshop's tables have their types; no item id is given twice and   *)
(* no stock is negative, although it is compared before the transaction    *)
(* that takes it (jobs.js 523-550).                                        *)
THEOREM WorkshopType == Spec => []TypeOK
<1>1. IInv => TypeOK
  BY DEF IInv
<1> QED
  BY <1>1, Inductive, PTL

(* Whatever stale updates race, a job at its inspection or past it has its *)
(* completion date (workshop.js 261, jobs.js 336, 855).                    *)
THEOREM CompletionIsKept == Spec => []CompletedBeforeQC
<1>1. IInv => CompletedBeforeQC
  BY DEF IInv, CompletedBeforeQC, Consistent, Inspected
<1> QED
  BY <1>1, Inductive, PTL

(* Whatever stale updates race, a delivered job has once passed its        *)
(* inspection (workshop.js, PATCH /jobs/:id/deliver).                      *)
THEOREM DeliveryNeedsQC == Spec => []DeliveredPassedQC
<1>1. IInv => DeliveredPassedQC
  BY DEF IInv, DeliveredPassedQC, Consistent
<1> QED
  BY <1>1, Inductive, PTL

-----------------------------------------------------------------------------
(* The units of a part on the cards, for any set of lines.                 *)
Taken(ls, p) == {m \in ls : m.took /\ m.part = p}
UnitsOf(ls) == [l \in ls |-> l.qty]
UnitsTaken(ls, p) == SumFunction(UnitsOf(Taken(ls, p)))

LEMMA OnJobsIsTaken == \A p : OnJobs(p) = UnitsTaken(lines, p)
BY DEF OnJobs, UnitsTaken, UnitsOf, Taken

LEMMA LineQty == \A l \in Line : l.qty \in Nat
<1>1. \A l \in Line : l.qty \in Qtys
  BY DEF Line
<1> QED
  BY <1>1, JobLinesAssumption

LEMMA UnitsTyped ==
    ASSUME NEW ls \in SUBSET Line, IsFiniteSet(ls), NEW p
    PROVE  /\ IsFiniteSet(Taken(ls, p))
           /\ UnitsOf(Taken(ls, p)) \in [Taken(ls, p) -> Int]
           /\ UnitsTaken(ls, p) \in Int
<1>1. Taken(ls, p) \subseteq ls
  BY DEF Taken
<1>2. IsFiniteSet(Taken(ls, p))
  BY <1>1, FS_Subset
<1>3. \A l \in Line : l.qty \in Int
  BY LineQty
<1>4. UnitsOf(Taken(ls, p)) \in [Taken(ls, p) -> Int]
  BY <1>1, <1>3 DEF UnitsOf
<1>5. UnitsTaken(ls, p) \in Int
  BY <1>2, <1>4, SumOfInts DEF UnitsTaken
<1> QED
  BY <1>2, <1>4, <1>5

(* A line that took units of a part adds them to those on the cards; every *)
(* other line adds none.                                                   *)
LEMMA LineCounts ==
    ASSUME NEW ls \in SUBSET Line, IsFiniteSet(ls), NEW new \in Line, new \notin ls,
           NEW p \in Parts
    PROVE  UnitsTaken(ls \cup {new}, p) =
             UnitsTaken(ls, p) + (IF new.took /\ new.part = p THEN new.qty ELSE 0)
<1>1. /\ ls \cup {new} \in SUBSET Line
      /\ IsFiniteSet(ls \cup {new})
  BY FS_AddElement
<1>2. /\ IsFiniteSet(Taken(ls, p))
      /\ UnitsOf(Taken(ls, p)) \in [Taken(ls, p) -> Int]
      /\ UnitsTaken(ls, p) \in Int
      /\ UnitsOf(Taken(ls \cup {new}, p)) \in [Taken(ls \cup {new}, p) -> Int]
  BY <1>1, UnitsTyped
<1>3. CASE new.took /\ new.part = p
  <2>1. Taken(ls \cup {new}, p) = Taken(ls, p) \cup {new} /\ new \notin Taken(ls, p)
    BY <1>3 DEF Taken
  <2>2. /\ \A l \in Taken(ls, p) : UnitsOf(Taken(ls \cup {new}, p))[l] = UnitsOf(Taken(ls, p))[l]
        /\ UnitsOf(Taken(ls \cup {new}, p))[new] = new.qty
    BY <2>1 DEF UnitsOf
  <2> DEFINE S == Taken(ls, p)
             fun == UnitsOf(S)
             other == UnitsOf(Taken(ls \cup {new}, p))
  <2>3. /\ IsFiniteSet(S) /\ fun \in [S -> Int] /\ new \notin S
        /\ other \in [S \cup {new} -> Int]
        /\ \A l \in S : other[l] = fun[l]
    BY <1>2, <2>1, <2>2
  <2> HIDE DEF S, fun, other
  <2>4. SumFunction(other) = SumFunction(fun) + other[new]
    BY <2>3, SumRowAdded
  <2> QED
    BY <1>3, <2>2, <2>4 DEF UnitsTaken, S, fun, other
<1>4. CASE ~ (new.took /\ new.part = p)
  <2>1. Taken(ls \cup {new}, p) = Taken(ls, p)
    BY <1>4 DEF Taken
  <2> QED
    BY <1>2, <1>4, <2>1 DEF UnitsTaken
<1> QED
  BY <1>3, <1>4

LEMMA LineUncounts ==
    ASSUME NEW ls \in SUBSET Line, IsFiniteSet(ls), NEW old \in ls, NEW p \in Parts
    PROVE  /\ IsFiniteSet(ls \ {old})
           /\ UnitsTaken(ls \ {old}, p) =
                UnitsTaken(ls, p) - (IF old.took /\ old.part = p THEN old.qty ELSE 0)
<1> DEFINE rest == ls \ {old}
<1>1. /\ IsFiniteSet(rest) /\ rest \in SUBSET Line
      /\ old \in Line /\ old \notin rest /\ ls = rest \cup {old}
  BY FS_RemoveElement
<1> HIDE DEF rest
<1>2. UnitsTaken(ls, p) = UnitsTaken(rest, p) + (IF old.took /\ old.part = p THEN old.qty ELSE 0)
  BY <1>1, LineCounts
<1>3. UnitsTaken(rest, p) \in Int /\ old.qty \in Int
  BY <1>1, UnitsTyped, LineQty
<1> QED
  BY <1>1, <1>2, <1>3 DEF rest

(* PartsAccounted needs to know that the lines are finitely many.          *)
PartsInv == IsFiniteSet(lines) /\ PartsAccounted

LEMMA PartsAddLine ==
    ASSUME TypeOK, PartsInv,
           NEW j \in 1..Len(jobs), NEW p \in Parts \cup {None}, NEW n \in Qtys,
           NEW took \in BOOLEAN, AddLine(j, p, n, took),
           UNCHANGED mislaid,
           stock' = (IF took THEN [stock EXCEPT ![p] = @ - n] ELSE stock)
    PROVE  PartsInv'
<1> DEFINE new == [id |-> serial + 1, job |-> j, part |-> p, qty |-> n, took |-> took]
<1>1. /\ lines' = lines \cup {new} /\ new \in Line /\ new \notin lines
      /\ new.took = took /\ new.part = p /\ new.qty = n
  BY DEF AddLine, TypeOK, Line
<1> HIDE DEF new
<1>2. lines \in SUBSET Line /\ IsFiniteSet(lines)
  BY DEF TypeOK, PartsInv
<1>3. IsFiniteSet(lines')
  BY <1>1, <1>2, FS_AddElement
<1>4. ASSUME NEW x \in Parts
      PROVE  stock'[x] + UnitsTaken(lines', x) + mislaid'[x] = OpeningQty
  <2>1. UnitsTaken(lines', x) = UnitsTaken(lines, x) + (IF took /\ p = x THEN n ELSE 0)
    BY <1>1, <1>2, LineCounts
  <2>2. stock[x] + UnitsTaken(lines, x) + mislaid[x] = OpeningQty
    BY OnJobsIsTaken DEF PartsInv, PartsAccounted
  <2>3. stock'[x] = stock[x] - (IF took /\ p = x THEN n ELSE 0)
    BY DEF TypeOK
  <2>4. /\ stock[x] \in Nat /\ mislaid'[x] = mislaid[x] /\ mislaid[x] \in Int /\ n \in Nat
        /\ UnitsTaken(lines, x) \in Int
    BY <1>2, UnitsTyped, JobLinesAssumption DEF TypeOK
  <2> QED
    BY <2>1, <2>2, <2>3, <2>4
<1> QED
  BY <1>3, <1>4 DEF PartsInv, PartsAccounted, OnJobs, UnitsTaken, UnitsOf, Taken

LEMMA PartsRemoveLine ==
    ASSUME TypeOK, PartsInv, NEW l \in lines, lines' = lines \ {l},
           \A p \in Parts : stock'[p] + mislaid'[p] =
               stock[p] + mislaid[p] + (IF l.took /\ l.part = p THEN l.qty ELSE 0)
           /\ stock'[p] \in Int /\ mislaid'[p] \in Int
    PROVE  PartsInv'
<1>1. lines \in SUBSET Line /\ IsFiniteSet(lines)
  BY DEF TypeOK, PartsInv
<1>2. IsFiniteSet(lines')
  BY <1>1, FS_RemoveElement
<1>3. l.qty \in Nat
  BY <1>1, LineQty
<1>4. ASSUME NEW x \in Parts
      PROVE  stock'[x] + UnitsTaken(lines', x) + mislaid'[x] = OpeningQty
  <2>1. UnitsTaken(lines', x) = UnitsTaken(lines, x) - (IF l.took /\ l.part = x THEN l.qty ELSE 0)
    BY <1>1, LineUncounts
  <2>2. stock[x] + UnitsTaken(lines, x) + mislaid[x] = OpeningQty
    BY OnJobsIsTaken DEF PartsInv, PartsAccounted
  <2>3. /\ stock[x] \in Nat /\ mislaid[x] \in Int /\ UnitsTaken(lines, x) \in Int
        /\ stock'[x] \in Int /\ mislaid'[x] \in Int
    BY <1>1, UnitsTyped DEF TypeOK
  <2> QED
    BY <1>3, <2>1, <2>2, <2>3
<1> QED
  BY <1>2, <1>4 DEF PartsInv, PartsAccounted, OnJobs, UnitsTaken, UnitsOf, Taken

LEMMA PartsStep ==
    ASSUME IInv, PartsInv, [Next]_vars
    PROVE  PartsInv'
<1>1. TypeOK
  BY DEF IInv
<1>2. ASSUME UNCHANGED <<lines, stock, mislaid>>
      PROVE  PartsInv'
  BY <1>2 DEF PartsInv, PartsAccounted, OnJobs
<1>3. ASSUME NEW c \in Clients, CommitAddPart(c)
      PROVE  PartsInv'
  <2> DEFINE q == req[c]
             took == q.part # None
  <2>1. q \in Requests /\ q.op = "add"
    BY <1>1, <1>3 DEF CommitAddPart, TypeOK, Requests
  <2>2. q.job \in 1..Len(jobs) /\ q.part \in Parts \cup {None} /\ q.qty \in Qtys
    BY <1>1, <2>1, RequestTypes DEF TypeOK
  <2>3. /\ took \in BOOLEAN /\ AddLine(q.job, q.part, q.qty, took) /\ UNCHANGED mislaid
        /\ stock' = IF took THEN [stock EXCEPT ![q.part] = @ - q.qty] ELSE stock
    BY <1>3 DEF CommitAddPart
  <2> HIDE DEF q, took
  <2> QED
    BY <1>1, <2>2, <2>3, PartsAddLine
<1>4. ASSUME NEW j \in 1..Len(jobs), NEW p \in Parts \cup {None}, NEW n \in Qtys,
             OwnerAddLine(j, p, n)
      PROVE  PartsInv'
  BY <1>1, <1>4, PartsAddLine DEF OwnerAddLine
<1>5. ASSUME NEW c \in Clients, CommitRemovePart(c)
      PROVE  PartsInv'
  <2>1. PICK l \in lines : lines' = lines \ {l} /\ RestoreStock(l)
    BY <1>5 DEF CommitRemovePart
  <2>2. l.qty \in Nat /\ stock \in [Parts -> Nat] /\ mislaid \in [Parts -> Int]
    BY <1>1, LineQty DEF TypeOK
  <2>3. ASSUME NEW p \in Parts
        PROVE  /\ stock'[p] + mislaid'[p] =
                    stock[p] + mislaid[p] + (IF l.took /\ l.part = p THEN l.qty ELSE 0)
               /\ stock'[p] \in Int /\ mislaid'[p] \in Int
    <3>1. p # None /\ stock[p] \in Nat /\ mislaid[p] \in Int
      BY <2>2, JobCardsAssumption
    <3>2. CASE l.part = None
      BY <2>1, <3>1, <3>2 DEF RestoreStock
    <3>3. CASE l.part # None
      <4>1. /\ stock' = [stock EXCEPT ![l.part] = @ + l.qty]
            /\ mislaid' = IF l.took THEN mislaid ELSE [mislaid EXCEPT ![l.part] = @ - l.qty]
        BY <2>1, <3>3 DEF RestoreStock
      <4>2. /\ stock'[p] = IF l.part = p THEN stock[p] + l.qty ELSE stock[p]
            /\ mislaid'[p] = IF l.part = p /\ ~l.took THEN mislaid[p] - l.qty ELSE mislaid[p]
        BY <2>2, <4>1
      <4> QED
        BY <2>2, <3>1, <4>2
    <3> QED
      BY <3>2, <3>3
  <2> QED
    BY <1>1, <2>1, <2>3, PartsRemoveLine
<1>6. ASSUME NEW l \in lines, OwnerRemoveLine(l)
      PROVE  PartsInv'
  <2>1. /\ lines' = lines \ {l} /\ stock' = stock
        /\ mislaid' = IF l.took THEN [mislaid EXCEPT ![l.part] = @ + l.qty] ELSE mislaid
    BY <1>6 DEF OwnerRemoveLine
  <2>2. l.qty \in Nat /\ stock \in [Parts -> Nat] /\ mislaid \in [Parts -> Int]
    BY <1>1, LineQty DEF TypeOK
  <2>3. ASSUME NEW p \in Parts
        PROVE  /\ stock'[p] + mislaid'[p] =
                    stock[p] + mislaid[p] + (IF l.took /\ l.part = p THEN l.qty ELSE 0)
               /\ stock'[p] \in Int /\ mislaid'[p] \in Int
    <3>1. mislaid'[p] = IF l.took /\ l.part = p THEN mislaid[p] + l.qty ELSE mislaid[p]
      BY <2>1, <2>2
    <3>2. stock[p] \in Nat /\ mislaid[p] \in Int
      BY <2>2
    <3> QED
      BY <2>1, <2>2, <3>1, <3>2
  <2> QED
    BY <1>1, <2>1, <2>3, PartsRemoveLine
<1>7. CASE LineNext
  <2>1. ASSUME NEW c \in Clients, BeginAddPart(c) \/ BeginRemovePart(c)
        PROVE  PartsInv'
    BY <1>2, <2>1 DEF BeginAddPart, BeginRemovePart, tables
  <2>2. ASSUME \/ \E j \in 1..Len(jobs) : RequestPart(j)
               \/ \E r \in 1..Len(requests), d \in Verdicts : ReviewRequest(r, d) \/ LogCall(r, d)
        PROVE  PartsInv'
    BY <1>2, <2>2 DEF RequestPart, ReviewRequest, LogCall
  <2> QED
    BY <1>3, <1>4, <1>5, <1>6, <1>7, <2>1, <2>2 DEF LineNext
<1>8. CASE MoveNext
  <2>1. UNCHANGED <<lines, stock, mislaid>>
    BY <1>8 DEF MoveNext, OwnerMove, MechanicMove, InspectJob, DeliverJob, ReportReady, StartMove,
       CommitMove, Reassign, EditJob, CreateJob, tables
  <2> QED
    BY <1>2, <2>1
<1>9. CASE BayNext
  <2>1. UNCHANGED <<lines, stock, mislaid>>
    BY <1>9 DEF BayNext, BeginAssignBay, CommitAssignBay, BeginDeactivate, CommitDeactivate,
       LeaveBay, SetBayActive, tables
  <2> QED
    BY <1>2, <2>1
<1>10. CASE (\E c \in Clients : Abandon(c)) \/ UNCHANGED vars
  BY <1>2, <1>10 DEF Abandon, vars, tables
<1> QED
  BY <1>7, <1>8, <1>9, <1>10 DEF Next

(* Every unit of a part is on the shelf, on a job card or was mislaid when *)
(* its line was removed by the other side: no addition or removal that     *)
(* races with another loses or doubles one (jobs.js 536-555, 592-610).     *)
THEOREM PartsAreAccounted == Spec => []PartsAccounted
<1>1. Init => PartsInv
  <2> SUFFICES ASSUME Init PROVE PartsInv
    OBVIOUS
  <2>1. IsFiniteSet(lines)
    BY FS_EmptySet DEF Init
  <2>2. ASSUME NEW p \in Parts
        PROVE  stock[p] + UnitsTaken(lines, p) + mislaid[p] = OpeningQty
    <3>1. UnitsOf(Taken(lines, p)) \in [{} -> Int]
      BY DEF Init, Taken, UnitsOf
    <3>2. \A fun \in [{} -> Int] : SumFunction(fun) = 0
      BY SumOfNone
    <3>3. UnitsTaken(lines, p) = 0
      BY <3>1, <3>2 DEF UnitsTaken
    <3>4. stock[p] = OpeningQty /\ mislaid[p] = 0 /\ OpeningQty \in Nat
      BY JobCardsAssumption DEF Init
    <3> QED
      BY <3>3, <3>4
  <2> QED
    BY <2>1, <2>2 DEF PartsInv, PartsAccounted, OnJobs, UnitsTaken, UnitsOf, Taken
<1>2. IInv /\ PartsInv /\ [Next]_vars => PartsInv'
  BY PartsStep
<1>3. PartsInv => PartsAccounted
  BY DEF PartsInv
<1> QED
  BY <1>1, <1>2, <1>3, Inductive, PTL DEF Spec
=============================================================================
