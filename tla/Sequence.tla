------------------------------ MODULE Sequence ------------------------------
(***************************************************************************)
(* lib/sequence.js under the transactions that call it.  nextSeq is an     *)
(* upsert of a counter row: PostgreSQL keeps the row locked from the       *)
(* upsert until the transaction ends, and undoes the increment when it     *)
(* rolls back.  A transaction locks further rows after it (stock, party,   *)
(* credit note), so transactions wait for each other, also in circles.     *)
(*                                                                         *)
(* A program is the sequence of rows that one handler's transaction locks, *)
(* in the order of its statements.  Three routes call nextSeq with the     *)
(* global client instead: the increment commits by itself, and the         *)
(* document is inserted by a later statement, if at all.                   *)
(***************************************************************************)
EXTENDS Naturals, Sequences

CONSTANTS
    Clients,        \* requests being served at once
    NoClient,
    Series,         \* the counter rows: number_counters by counter_key
    OtherRows,      \* the other rows that transactions lock
    Programs,       \* what the transactions lock, in order
    OutsideSeries,  \* series that are also numbered outside a transaction
    TaxSeries,      \* series that must be continuous
    MaxNumber       \* bound on the numbers drawn

Rows == Series \cup OtherRows

ASSUME SequenceAssumption ==
    /\ NoClient \notin Clients
    /\ Programs \subseteq Seq(Rows)
    /\ \A p \in Programs : \A i, j \in 1..Len(p) : p[i] = p[j] => i = j
    /\ OutsideSeries \subseteq Series
    /\ TaxSeries \subseteq Series
    /\ MaxNumber \in Nat

VARIABLES
    last,        \* number_counters.last_value, as committed
    holder,      \* the client whose transaction holds the row's lock
    phase,       \* what each client is doing
    ahead,       \* the rows a client's transaction still has to lock
    drawn,       \* the number nextSeq returned to the client, 0 for none
    documents    \* the numbers on the documents of each series

vars == <<last, holder, phase, ahead, drawn, documents>>

Phases == {"idle", "running", "stalled", "numbered"}
NoNumbers == [s \in Series |-> 0]

Init ==
    /\ last = [s \in Series |-> 0]
    /\ holder = [r \in Rows |-> NoClient]
    /\ phase = [c \in Clients |-> "idle"]
    /\ ahead = [c \in Clients |-> <<>>]
    /\ drawn = [c \in Clients |-> NoNumbers]
    /\ documents = [s \in Series |-> <<>>]

Begin(c) ==
    /\ phase[c] = "idle"
    /\ \A s \in Series : last[s] < MaxNumber
    /\ \E p \in Programs : ahead' = [ahead EXCEPT ![c] = p]
    /\ phase' = [phase EXCEPT ![c] = "running"]
    /\ UNCHANGED <<last, holder, drawn, documents>>

Free_Unlocked(r) == TRUE

(* Another transaction that wants the row blocks until this is so.         *)
Free(r) == holder[r] = NoClient

Draw(c, s) == drawn' = [drawn EXCEPT ![c][s] = last[s] + 1]

(* One statement of the transaction: nextSeq if the row is a counter.      *)
Lock(c) ==
    /\ phase[c] = "running"
    /\ ahead[c] # <<>>
    /\ LET r == Head(ahead[c]) IN
        /\ Free(r)
        /\ holder' = [holder EXCEPT ![r] = c]
        /\ IF r \in Series THEN Draw(c, r) ELSE UNCHANGED drawn
    /\ ahead' = [ahead EXCEPT ![c] = Tail(@)]
    /\ UNCHANGED <<last, phase, documents>>

(* The transaction is over and its locks are free.                         *)
Release(c) ==
    /\ holder' = [r \in Rows |-> IF holder[r] = c THEN NoClient ELSE holder[r]]
    /\ phase' = [phase EXCEPT ![c] = "idle"]
    /\ ahead' = [ahead EXCEPT ![c] = <<>>]
    /\ drawn' = [drawn EXCEPT ![c] = NoNumbers]

Numbered(c) == {s \in Series : drawn[c][s] # 0}

InsertDocuments(c) ==
    documents' = [s \in Series |-> IF s \in Numbered(c)
                                   THEN Append(documents[s], drawn[c][s])
                                   ELSE documents[s]]

Commit(c) ==
    /\ phase[c] = "running"
    /\ ahead[c] = <<>>
    /\ last' = [s \in Series |-> IF s \in Numbered(c) THEN drawn[c][s] ELSE last[s]]
    /\ InsertDocuments(c)
    /\ Release(c)

RollBack_KeepsNumber(c) ==
    /\ Release(c)
    /\ last' = [s \in Series |-> IF s \in Numbered(c) THEN drawn[c][s] ELSE last[s]]
    /\ UNCHANGED documents

RollBack(c) ==
    /\ Release(c)
    /\ UNCHANGED <<last, documents>>

(* A statement throws: a guard matched no row, a constraint refused.       *)
Fail(c) ==
    /\ phase[c] = "running"
    /\ RollBack(c)

(* The process dies or hangs between two statements: its locks stay.       *)
Stall(c) ==
    /\ phase[c] = "running"
    /\ phase' = [phase EXCEPT ![c] = "stalled"]
    /\ UNCHANGED <<last, holder, ahead, drawn, documents>>

(* The timeout every transaction is opened with rolls it back.             *)
Expire(c) ==
    /\ phase[c] = "stalled"
    /\ RollBack(c)

Waits(c) ==
    IF phase[c] = "running" /\ ahead[c] # <<>> THEN holder[Head(ahead[c])]
    ELSE NoClient

InCycle_Unnoticed(c) == FALSE

(* The client waits in a circle of clients, each for the next.             *)
InCycle(c) ==
    \E S \in SUBSET Clients : c \in S /\ {Waits(d) : d \in S} = S

(* PostgreSQL's deadlock detector aborts one transaction of the circle.    *)
BreakDeadlock(c) ==
    /\ InCycle(c)
    /\ RollBack(c)

(* nextSeq(prisma, ...): committed at once, in a transaction of its own.   *)
DrawOutside(c, s) ==
    /\ phase[c] = "idle"
    /\ last[s] < MaxNumber
    /\ Free(s)
    /\ last' = [last EXCEPT ![s] = @ + 1]
    /\ Draw(c, s)
    /\ phase' = [phase EXCEPT ![c] = "numbered"]
    /\ UNCHANGED <<holder, ahead, documents>>

InsertOutside(c) ==
    /\ phase[c] = "numbered"
    /\ InsertDocuments(c)
    /\ Release(c)
    /\ UNCHANGED last

(* The INSERT is refused, or the process dies before it.                   *)
AbandonOutside(c) ==
    /\ phase[c] = "numbered"
    /\ RollBack(c)

Next ==
    \E c \in Clients :
        \/ Begin(c) \/ Lock(c) \/ Commit(c) \/ Fail(c)
        \/ Stall(c) \/ Expire(c) \/ BreakDeadlock(c)
        \/ InsertOutside(c) \/ AbandonOutside(c)
        \/ \E s \in OutsideSeries : DrawOutside(c, s)

(* The event loop runs the next statement of every live request; a row's   *)
(* waiters queue, so none of them is overtaken for ever; transactions      *)
(* expire; and the detector looks at every wait that lasts.                *)
Fairness ==
    \A c \in Clients :
        /\ SF_vars(Lock(c))
        /\ WF_vars(Commit(c))
        /\ WF_vars(Expire(c))
        /\ WF_vars(BreakDeadlock(c))

SafeSpec == Init /\ [][Next]_vars

Spec == SafeSpec /\ Fairness

-----------------------------------------------------------------------------
(* Every variable has its type, a row is only locked by a transaction that *)
(* is under way, and an idle client has nothing left over from the last.   *)
TypeOK ==
    /\ last \in [Series -> Nat]
    /\ holder \in [Rows -> Clients \cup {NoClient}]
    /\ phase \in [Clients -> Phases]
    /\ ahead \in [Clients -> Seq(Rows)]
    /\ drawn \in [Clients -> [Series -> Nat]]
    /\ documents \in [Series -> Seq(Nat)]
    /\ \A r \in Rows : holder[r] # NoClient => phase[holder[r]] \in {"running", "stalled"}
    /\ \A c \in Clients : phase[c] = "idle" => drawn[c] = NoNumbers

(* A number never goes to two requests, nor to a request when a document   *)
(* bears it already, whether it is drawn in a transaction or outside one   *)
(* (sequence.js: "1, 2, 3 ... even under 100 concurrent requests").        *)
NumbersUnique ==
    \A c \in Clients : \A s \in Numbered(c) :
        /\ \A d \in Clients \ {c} : drawn[d][s] # drawn[c][s]
        /\ \A n \in 1..Len(documents[s]) : documents[s][n] # drawn[c][s]

(* The series that must be continuous and are drawn nowhere but in the     *)
(* transaction that inserts the document.                                  *)
KeptInside == TaxSeries \ OutsideSeries

Promise == INSTANCE GaplessSeries WITH
    Series <- KeptInside,
    issued <- [s \in KeptInside |-> documents[s]]

(* The tax series that are drawn only in transactions are continuous,      *)
(* however transactions overlap, roll back, stall or are shot by the       *)
(* deadlock detector, and whatever is drawn outside of them of the other   *)
(* series (what billing.js 264-268 draws its numbers inside for).          *)
TaxSeriesGapless == Promise!Spec

AllTax == INSTANCE GaplessSeries WITH
    Series <- TaxSeries,
    issued <- [s \in TaxSeries |-> documents[s]]

(* "GST requires the sales invoice series to be continuous with no gaps"   *)
(* (billing.js 264-268): false, since the workshop's invoices draw from    *)
(* the same series outside a transaction.                                  *)
EveryTaxSeriesGapless == AllTax!Spec

(* No request waits for ever: neither behind a process that died holding   *)
(* the counter's row, nor in a circle with another that locks the same     *)
(* rows in another order (the timeouts at billing.js 515 and               *)
(* serializable-tx.js 13).                                                 *)
EveryTransactionEnds ==
    \A c \in Clients : phase[c] = "running" ~> phase[c] = "idle"
=============================================================================
