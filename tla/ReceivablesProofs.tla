-------------------------- MODULE ReceivablesProofs --------------------------
(***************************************************************************)
(* Theorems about the receivables, for any number of parties, invoices,    *)
(* amounts and concurrent requests.                                        *)
(***************************************************************************)
EXTENDS Receivables, TLAPS

Customers == Parties \cup {NoParty}

(* What a request adds to the ledger it holds.                             *)
Change(q) == IF q.op = "entry" THEN q.change ELSE -q.amount

(* The balance a request read when it took the row is still the balance.   *)
BalancesCurrent ==
    \A c \in Clients :
        Holds(req[c]) # NoParty =>
            req[c].balance = outstanding[Holds(req[c])] + Change(req[c])

(* An invoice that was seen paid is paid.                                  *)
SeenIsPaid ==
    \A c \in Clients :
        req[c].op \in {"pay", "posted", "summed"} /\ req[c].seen = "PAID"
            => status[req[c].invoice] = "PAID"

(* A request's sum misses no payment while the invoice is open, and never  *)
(* counts one that is not there.                                           *)
SumsCurrent ==
    \A c \in Clients :
        req[c].op = "summed" =>
            LET q == req[c] IN
            /\ q.sum <= payments[q.invoice] + q.amount
            /\ Sold[q.invoice].party # NoParty /\ status[q.invoice] = "CREDIT"
                   => q.sum = payments[q.invoice] + q.amount

IInv ==
    /\ TypeOK
    /\ BalancesCurrent
    /\ SeenIsPaid
    /\ SumsCurrent
    /\ PaidWhenCovered
    /\ LedgerIsAChain

-----------------------------------------------------------------------------
(* What the parties and amounts of a request are, by the step it is at.    *)
LEMMA RequestTypes ==
    ASSUME NEW q \in {Idle} \cup PaymentReq \cup EntryReq
    PROVE  /\ q.op \in {"idle", "pay", "posted", "summed", "apply", "entry"}
           /\ q.op = "idle" => q = Idle
           /\ q.op \in {"pay", "posted", "summed"} =>
                /\ q.invoice \in Invoices
                /\ q.amount \in Nat \ {0}
                /\ q.amount \in Amounts
                /\ q.seen \in {"CREDIT", "PAID"}
                /\ CreditedParty(q) \in Customers
           /\ q.op \in {"posted", "summed"} => q.balance \in Int
           /\ q.op = "summed" => q.sum \in Nat
           /\ q.op \in {"apply", "entry"} => q.party \in Parties /\ q.change \in Int
           /\ q.op = "entry" => q.balance \in Int
<1>1. CASE q = Idle
  BY <1>1 DEF Idle
<1>2. CASE q \in PaymentReq
  <2>1. /\ q.op \in {"pay", "posted", "summed"}
        /\ q.invoice \in Invoices
        /\ q.amount \in Amounts
        /\ q.seen \in {"CREDIT", "PAID"}
        /\ q.op \in {"posted", "summed"} => q.balance \in Int
        /\ q.op = "summed" => q.sum \in Nat
    BY <1>2 DEF PaymentReq
  <2>2. q.amount \in Nat \ {0} /\ Sold[q.invoice].party \in Customers
    BY <2>1, ReceivablesAssumption DEF Customers
  <2>3. CreditedParty(q) \in Customers
    BY <2>2 DEF CreditedParty, Customers
  <2> QED
    BY <2>1, <2>2, <2>3
<1>3. CASE q \in EntryReq
  BY <1>3 DEF EntryReq
<1> QED
  BY <1>1, <1>2, <1>3

(* The row a request holds, by the step it is at.                          *)
LEMMA HoldsByStep ==
    ASSUME NEW q \in {Idle} \cup PaymentReq \cup EntryReq
    PROVE  /\ q.op \in {"idle", "pay", "apply"} => Holds(q) = NoParty
           /\ q.op \in {"posted", "summed"} => Holds(q) = CreditedParty(q)
           /\ q.op = "entry" => Holds(q) = q.party
           /\ Holds(q) \in Customers
<1>1. q.op \in {"idle", "pay", "apply"} => Holds(q) = NoParty
  BY DEF Holds
<1>2. q.op \in {"posted", "summed"} => Holds(q) = CreditedParty(q)
  BY DEF Holds
<1>3. q.op = "entry" => Holds(q) = q.party
  BY DEF Holds
<1> QED
  BY <1>1, <1>2, <1>3, RequestTypes DEF Customers

(* Two requests never hold one row.                                        *)
LEMMA HeldOnce ==
    ASSUME TypeOK, NEW c \in Clients, NEW d \in Clients,
           Holds(req[c]) = Holds(req[d]), Holds(req[c]) # NoParty
    PROVE  c = d
<1>1. Holds(req[c]) \in Parties
  BY HoldsByStep DEF TypeOK, Customers
<1> QED
  BY <1>1 DEF TypeOK

(* Who holds which row once request c has become q: a request that takes a *)
(* row takes a free one, and one that ends lets go of its own.             *)
LEMMA TakingARow ==
    ASSUME TypeOK, NEW c \in Clients, NEW q \in {Idle} \cup PaymentReq \cup EntryReq,
           Holds(req[c]) = NoParty, LockParty(c, Holds(q)),
           req' = [req EXCEPT ![c] = q]
    PROVE  /\ locked' \in [Parties -> Clients \cup {Free}]
           /\ req' \in [Clients -> {Idle} \cup PaymentReq \cup EntryReq]
           /\ \A p \in Parties, d \in Clients : locked'[p] = d <=> Holds(req'[d]) = p
<1>1. Holds(q) \in Customers
  BY HoldsByStep
<1>2. Free \notin Clients /\ NoParty \notin Parties
  BY ReceivablesAssumption
<1>3. req' \in [Clients -> {Idle} \cup PaymentReq \cup EntryReq]
  BY DEF TypeOK
<1>4. \A d \in Clients : Holds(req'[d]) = IF d = c THEN Holds(q) ELSE Holds(req[d])
  BY DEF TypeOK
<1>5. CASE Holds(q) = NoParty
  BY <1>2, <1>3, <1>4, <1>5 DEF LockParty, TypeOK
<1>6. CASE Holds(q) # NoParty
  <2>1. Holds(q) \in Parties /\ locked[Holds(q)] = Free
        /\ locked' = [locked EXCEPT ![Holds(q)] = c]
    BY <1>1, <1>6 DEF LockParty, Customers
  <2>2. locked' \in [Parties -> Clients \cup {Free}]
    BY <2>1 DEF TypeOK
  <2>3. ASSUME NEW p \in Parties, NEW d \in Clients
        PROVE  locked'[p] = d <=> Holds(req'[d]) = p
    BY <1>2, <1>4, <2>1 DEF TypeOK
  <2> QED
    BY <1>3, <2>2, <2>3
<1> QED
  BY <1>5, <1>6

LEMMA LettingGo ==
    ASSUME TypeOK, NEW c \in Clients, Unlock(c), req' = [req EXCEPT ![c] = Idle]
    PROVE  /\ locked' \in [Parties -> Clients \cup {Free}]
           /\ req' \in [Clients -> {Idle} \cup PaymentReq \cup EntryReq]
           /\ \A p \in Parties, d \in Clients : locked'[p] = d <=> Holds(req'[d]) = p
<1>1. Holds(Idle) = NoParty
  BY HoldsByStep DEF Idle
<1>2. Free \notin Clients /\ NoParty \notin Parties
  BY ReceivablesAssumption
<1>3. \A d \in Clients : Holds(req'[d]) = IF d = c THEN NoParty ELSE Holds(req[d])
  BY <1>1 DEF TypeOK
<1>4. \A p \in Parties : locked'[p] = IF locked[p] = c THEN Free ELSE locked[p]
  BY DEF Unlock
<1>5. locked' \in [Parties -> Clients \cup {Free}]
  BY DEF Unlock, TypeOK
<1>6. req' \in [Clients -> {Idle} \cup PaymentReq \cup EntryReq]
  BY DEF TypeOK
<1>7. ASSUME NEW p \in Parties, NEW d \in Clients
      PROVE  locked'[p] = d <=> Holds(req'[d]) = p
  <2>1. locked[p] = d <=> Holds(req[d]) = p
    BY DEF TypeOK
  <2>2. p # NoParty /\ d # Free
    BY <1>2
  <2> QED
    BY <1>3, <1>4, <2>1, <2>2
<1> QED
  BY <1>5, <1>6, <1>7

(* Keeping a row while working on it.                                      *)
LEMMA KeepingARow ==
    ASSUME TypeOK, NEW c \in Clients, NEW q \in {Idle} \cup PaymentReq \cup EntryReq,
           Holds(q) = Holds(req[c]), UNCHANGED locked,
           req' = [req EXCEPT ![c] = q]
    PROVE  /\ locked' \in [Parties -> Clients \cup {Free}]
           /\ req' \in [Clients -> {Idle} \cup PaymentReq \cup EntryReq]
           /\ \A p \in Parties, d \in Clients : locked'[p] = d <=> Holds(req'[d]) = p
<1>1. req' \in [Clients -> {Idle} \cup PaymentReq \cup EntryReq]
  BY DEF TypeOK
<1>2. \A d \in Clients : Holds(req'[d]) = Holds(req[d])
  BY DEF TypeOK
<1> QED
  BY <1>1, <1>2 DEF TypeOK

-----------------------------------------------------------------------------
(* The other conjuncts are about one request at a time.  They survive a    *)
(* step that changes no table, if they hold of what the request becomes.   *)
CurrentAt(q) ==
    /\ Holds(q) # NoParty => q.balance = outstanding[Holds(q)] + Change(q)
    /\ q.op \in {"pay", "posted", "summed"} /\ q.seen = "PAID"
           => status[q.invoice] = "PAID"
    /\ q.op = "summed" =>
           /\ q.sum <= payments[q.invoice] + q.amount
           /\ Sold[q.invoice].party # NoParty /\ status[q.invoice] = "CREDIT"
                  => q.sum = payments[q.invoice] + q.amount

LEMMA RequestsCurrent ==
    BalancesCurrent /\ SeenIsPaid /\ SumsCurrent
        <=> \A c \in Clients : CurrentAt(req[c])
BY DEF BalancesCurrent, SeenIsPaid, SumsCurrent, CurrentAt

LEMMA ReadingStep ==
    ASSUME IInv, NEW c \in Clients, NEW q \in {Idle} \cup PaymentReq \cup EntryReq,
           CurrentAt(q), req' = [req EXCEPT ![c] = q], UNCHANGED tables
    PROVE  /\ BalancesCurrent' /\ SeenIsPaid' /\ SumsCurrent'
           /\ PaidWhenCovered' /\ LedgerIsAChain'
<1>1. \A d \in Clients : CurrentAt(req[d])
  BY RequestsCurrent DEF IInv
<1>2. \A d \in Clients : req'[d] = IF d = c THEN q ELSE req[d]
  BY DEF IInv, TypeOK
<1>3. ASSUME NEW d \in Clients PROVE CurrentAt(req[d])'
  <2>1. CurrentAt(req'[d])
    BY <1>1, <1>2
  <2> QED
    BY <2>1 DEF CurrentAt, tables
<1>4. BalancesCurrent' /\ SeenIsPaid' /\ SumsCurrent'
  BY <1>3 DEF BalancesCurrent, SeenIsPaid, SumsCurrent, CurrentAt
<1>5. PaidWhenCovered' /\ LedgerIsAChain'
  BY DEF IInv, PaidWhenCovered, LedgerIsAChain, tables
<1> QED
  BY <1>4, <1>5

(* Nothing is expected of a request that is not there.                     *)
LEMMA IdleIsCurrent == Idle \in {Idle} /\ CurrentAt(Idle)
BY HoldsByStep DEF Idle, CurrentAt

LEMMA InitIInv == Init => IInv
<1> SUFFICES ASSUME Init PROVE IInv
  OBVIOUS
<1>1. Holds(Idle) = NoParty
  BY HoldsByStep DEF Idle
<1>2. TypeOK
  BY <1>1, ReceivablesAssumption DEF Init, TypeOK
<1>3. BalancesCurrent /\ SeenIsPaid /\ SumsCurrent
  BY RequestsCurrent, IdleIsCurrent DEF Init
<1>4. PaidWhenCovered
  BY ReceivablesAssumption DEF Init, PaidWhenCovered
<1>5. LedgerIsAChain
  <2>1. \A p \in Parties : ledger[p] = <<>> /\ Len(ledger[p]) = 0 /\ outstanding[p] = 0
    BY DEF Init
  <2>2. \A p \in Parties : \A n \in 1..Len(ledger[p]) : FALSE
    BY <2>1
  <2> QED
    BY <2>1, <2>2 DEF LedgerIsAChain
<1> QED
  BY <1>2, <1>3, <1>4, <1>5 DEF IInv

-----------------------------------------------------------------------------
(* The steps that only read and lock.                                      *)
LEMMA StepReads ==
    ASSUME IInv, NEW c \in Clients, NEW q \in {Idle} \cup PaymentReq \cup EntryReq,
           CurrentAt(q), req' = [req EXCEPT ![c] = q], UNCHANGED tables,
           \/ Holds(req[c]) = NoParty /\ LockParty(c, Holds(q))
           \/ Holds(req[c]) = Holds(q) /\ UNCHANGED locked
           \/ q = Idle /\ Unlock(c)
    PROVE  IInv'
<1>1. TypeOK
  BY DEF IInv
<1>2. /\ locked' \in [Parties -> Clients \cup {Free}]
      /\ req' \in [Clients -> {Idle} \cup PaymentReq \cup EntryReq]
      /\ \A p \in Parties, d \in Clients : locked'[p] = d <=> Holds(req'[d]) = p
  <2>1. CASE Holds(req[c]) = NoParty /\ LockParty(c, Holds(q))
    BY <1>1, <2>1, TakingARow
  <2>2. CASE Holds(req[c]) = Holds(q) /\ UNCHANGED locked
    BY <1>1, <2>2, KeepingARow
  <2>3. CASE q = Idle /\ Unlock(c)
    BY <1>1, <2>3, LettingGo
  <2> QED
    BY <2>1, <2>2, <2>3
<1>3. TypeOK'
  BY <1>1, <1>2 DEF TypeOK, tables, Holds, CreditedParty
<1> QED
  BY <1>3, ReadingStep DEF IInv

LEMMA StepBeginPayment ==
    ASSUME IInv, NEW c \in Clients, BeginPayment(c)
    PROVE  IInv'
<1>1. PICK i \in Invoices, a \in Amounts :
        /\ req[c].op = "idle"
        /\ req' = [req EXCEPT ![c] = [op |-> "pay", invoice |-> i, amount |-> a,
                                      seen |-> status[i]]]
        /\ UNCHANGED <<tables, locked>>
  BY DEF BeginPayment
<1> DEFINE q == [op |-> "pay", invoice |-> i, amount |-> a, seen |-> status[i]]
<1>2. q \in PaymentReq
  BY DEF PaymentReq, IInv, TypeOK
<1>3. Holds(req[c]) = NoParty /\ Holds(q) = NoParty
  BY <1>1, <1>2, HoldsByStep DEF IInv, TypeOK
<1>4. CurrentAt(q)
  BY <1>3 DEF CurrentAt
<1>5. req' = [req EXCEPT ![c] = q] /\ UNCHANGED tables /\ UNCHANGED locked
  BY <1>1 DEF tables
<1> QED
  BY <1>2, <1>3, <1>4, <1>5, StepReads

LEMMA StepPostPayment ==
    ASSUME IInv, NEW c \in Clients, PostPayment(c)
    PROVE  IInv'
<1> DEFINE o == req[c]
           q == [op |-> "posted", invoice |-> o.invoice, amount |-> o.amount, seen |-> o.seen,
                 balance |-> Incremented(CreditedParty(o), -o.amount)]
<1>1. /\ o.op = "pay"
      /\ LockParty(c, CreditedParty(o))
      /\ req' = [req EXCEPT ![c] = q]
      /\ UNCHANGED tables
  BY DEF PostPayment
<1>2. o \in {Idle} \cup PaymentReq \cup EntryReq
  BY DEF IInv, TypeOK
<1>3. /\ o.invoice \in Invoices /\ o.amount \in Amounts /\ o.amount \in Nat
      /\ o.seen \in {"CREDIT", "PAID"} /\ CreditedParty(o) \in Customers
  BY <1>1, <1>2, RequestTypes
<1>4. Incremented(CreditedParty(o), -o.amount) \in Int
  BY <1>3 DEF Incremented, Customers, IInv, TypeOK
<1>5. q \in PaymentReq
  BY <1>3, <1>4 DEF PaymentReq
<1>6. CreditedParty(q) = CreditedParty(o)
  BY DEF CreditedParty
<1>7. Holds(req[c]) = NoParty /\ Holds(q) = CreditedParty(o)
  BY <1>1, <1>2, <1>5, <1>6, HoldsByStep
<1>8. o.seen = "PAID" => status[o.invoice] = "PAID"
  BY <1>1 DEF IInv, SeenIsPaid
<1>9. CurrentAt(q)
  BY <1>7, <1>8 DEF CurrentAt, Change, Incremented
<1> QED
  BY <1>1, <1>5, <1>7, <1>9, StepReads

LEMMA StepSumPayments ==
    ASSUME IInv, NEW c \in Clients, SumPayments(c)
    PROVE  IInv'
<1> DEFINE o == req[c]
           q == [op |-> "summed", invoice |-> o.invoice, amount |-> o.amount,
                 seen |-> o.seen, balance |-> o.balance,
                 sum |-> payments[o.invoice] + o.amount]
<1>1. /\ o.op = "posted"
      /\ req' = [req EXCEPT ![c] = q]
      /\ UNCHANGED tables /\ UNCHANGED locked
  BY DEF SumPayments
<1>2. o \in {Idle} \cup PaymentReq \cup EntryReq
  BY DEF IInv, TypeOK
<1>3. /\ o.invoice \in Invoices /\ o.amount \in Amounts /\ o.amount \in Nat
      /\ o.seen \in {"CREDIT", "PAID"} /\ o.balance \in Int
  BY <1>1, <1>2, RequestTypes
<1>4. payments[o.invoice] + o.amount \in Nat
  BY <1>3 DEF IInv, TypeOK
<1>5. q \in PaymentReq
  BY <1>3, <1>4 DEF PaymentReq
<1>6. CreditedParty(q) = CreditedParty(o)
  BY DEF CreditedParty
<1>7. Holds(req[c]) = CreditedParty(o) /\ Holds(q) = CreditedParty(o)
  BY <1>1, <1>2, <1>5, <1>6, HoldsByStep
<1>8. /\ o.seen = "PAID" => status[o.invoice] = "PAID"
      /\ Holds(o) # NoParty => o.balance = outstanding[Holds(o)] + Change(o)
  BY <1>1 DEF IInv, SeenIsPaid, BalancesCurrent
<1>9. Change(q) = Change(o)
  BY <1>1 DEF Change
<1>10. CurrentAt(q)
  BY <1>4, <1>7, <1>8, <1>9 DEF CurrentAt
<1> QED
  BY <1>1, <1>5, <1>7, <1>10, StepReads

LEMMA StepBeginEntry ==
    ASSUME IInv, NEW c \in Clients, BeginEntry(c)
    PROVE  IInv'
<1>1. PICK p \in Parties, a \in Amounts : \E change \in {a, -a} :
        /\ req[c].op = "idle"
        /\ LockParty(c, p)
        /\ req' = [req EXCEPT ![c] = [op |-> "entry", party |-> p, change |-> change,
                                      balance |-> Incremented(p, change)]]
        /\ UNCHANGED tables
  BY DEF BeginEntry
<1>2. PICK change \in {a, -a} :
        /\ req[c].op = "idle"
        /\ LockParty(c, p)
        /\ req' = [req EXCEPT ![c] = [op |-> "entry", party |-> p, change |-> change,
                                      balance |-> Incremented(p, change)]]
        /\ UNCHANGED tables
  BY <1>1
<1> DEFINE q == [op |-> "entry", party |-> p, change |-> change,
                 balance |-> Incremented(p, change)]
<1>3. change \in Int /\ Incremented(p, change) \in Int
  <2>1. a \in Nat
    BY ReceivablesAssumption
  <2> QED
    BY <2>1 DEF Incremented, IInv, TypeOK
<1>4. q \in EntryReq
  BY <1>3 DEF EntryReq
<1>5. Holds(req[c]) = NoParty /\ Holds(q) = p
  <2>1. q.op = "entry" /\ q.party = p
    OBVIOUS
  <2>2. Holds(q) = p
    BY <1>4, <2>1, HoldsByStep
  <2> QED
    BY <1>2, <2>2, HoldsByStep DEF IInv, TypeOK
<1>6. CurrentAt(q)
  BY <1>5 DEF CurrentAt, Change, Incremented
<1> QED
  BY <1>2, <1>4, <1>5, <1>6, StepReads

LEMMA StepBeginApply ==
    ASSUME IInv, NEW c \in Clients, BeginApply(c)
    PROVE  IInv'
<1>1. PICK p \in suppliers, a \in Amounts :
        /\ req[c].op = "idle"
        /\ req' = [req EXCEPT ![c] = [op |-> "apply", party |-> p, change |-> -a]]
        /\ UNCHANGED <<tables, locked>>
  BY DEF BeginApply
<1> DEFINE q == [op |-> "apply", party |-> p, change |-> -a]
<1>2. q \in EntryReq
  <2>1. p \in Parties
    BY DEF IInv, TypeOK
  <2>2. -a \in Int
    BY ReceivablesAssumption
  <2> QED
    BY <2>1, <2>2 DEF EntryReq
<1>3. Holds(req[c]) = NoParty /\ Holds(q) = NoParty
  BY <1>1, <1>2, HoldsByStep DEF IInv, TypeOK
<1>4. CurrentAt(q)
  BY <1>3 DEF CurrentAt
<1>5. req' = [req EXCEPT ![c] = q] /\ UNCHANGED tables /\ UNCHANGED locked
  BY <1>1 DEF tables
<1> QED
  BY <1>2, <1>3, <1>4, <1>5, StepReads

LEMMA StepLockApply ==
    ASSUME IInv, NEW c \in Clients, LockApply(c)
    PROVE  IInv'
<1> DEFINE o == req[c]
           q == [op |-> "entry", party |-> o.party, change |-> o.change,
                 balance |-> Incremented(o.party, o.change)]
<1>1. /\ o.op = "apply"
      /\ LockParty(c, o.party)
      /\ req' = [req EXCEPT ![c] = q]
      /\ UNCHANGED tables
  BY DEF LockApply
<1>2. o \in {Idle} \cup PaymentReq \cup EntryReq
  BY DEF IInv, TypeOK
<1>3. o.party \in Parties /\ o.change \in Int
  BY <1>1, <1>2, RequestTypes
<1>4. q \in EntryReq
  BY <1>3 DEF EntryReq, Incremented, IInv, TypeOK
<1>5. Holds(req[c]) = NoParty /\ Holds(q) = o.party
  BY <1>1, <1>2, <1>4, HoldsByStep
<1>6. CurrentAt(q)
  BY <1>5 DEF CurrentAt, Change, Incremented
<1> QED
  BY <1>1, <1>4, <1>5, <1>6, StepReads

LEMMA StepRollback ==
    ASSUME IInv, NEW c \in Clients, Rollback(c)
    PROVE  IInv'
BY IdleIsCurrent, StepReads DEF Rollback

LEMMA StepEditParty ==
    ASSUME IInv, NEW p \in Parties, NEW b \in BOOLEAN, EditParty(p, b)
    PROVE  IInv'
<1>1. TypeOK'
  BY DEF IInv, TypeOK, EditParty, Holds, CreditedParty
<1>2. BalancesCurrent' /\ SeenIsPaid' /\ SumsCurrent'
  BY DEF IInv, BalancesCurrent, SeenIsPaid, SumsCurrent, EditParty, Holds, CreditedParty,
         Change
<1>3. PaidWhenCovered' /\ LedgerIsAChain'
  BY DEF IInv, PaidWhenCovered, LedgerIsAChain, EditParty
<1> QED
  BY <1>1, <1>2, <1>3 DEF IInv

-----------------------------------------------------------------------------
(* The two steps that commit.  A row that is added to a chain at the       *)
(* party's balance makes a longer chain.                                   *)
LEMMA ChainGrows ==
    ASSUME TypeOK, LedgerIsAChain,
           NEW p \in Parties, NEW change \in Int,
           WriteLedger(p, change, outstanding[p] + change)
    PROVE  /\ LedgerIsAChain'
           /\ outstanding' \in [Parties -> Int]
           /\ ledger' \in [Parties -> Seq(LedgerRow)]
<1> DEFINE row == [change |-> change, balance |-> outstanding[p] + change]
           old == ledger[p]
<1>1. old \in Seq(LedgerRow) /\ outstanding[p] \in Int
  BY DEF TypeOK
<1>2. row \in LedgerRow
  BY <1>1 DEF LedgerRow
<1>3. /\ outstanding' = [outstanding EXCEPT ![p] = @ + change]
      /\ ledger' = [ledger EXCEPT ![p] = Append(old, row)]
  BY DEF WriteLedger, TypeOK
<1>4. outstanding' \in [Parties -> Int]
  BY <1>1, <1>3 DEF TypeOK
<1>5. Append(old, row) \in Seq(LedgerRow)
  BY <1>1, <1>2
<1>6. ledger' \in [Parties -> Seq(LedgerRow)]
  BY <1>3, <1>5 DEF TypeOK
<1>7. /\ ledger'[p] = Append(old, row)
      /\ outstanding'[p] = outstanding[p] + change
      /\ \A o \in Parties : o # p => ledger'[o] = ledger[o] /\ outstanding'[o] = outstanding[o]
  BY <1>3 DEF TypeOK
<1>8. /\ Len(Append(old, row)) = Len(old) + 1
      /\ Len(old) \in Nat
      /\ Append(old, row)[Len(old) + 1] = row
      /\ \A n \in 1..Len(old) : Append(old, row)[n] = old[n]
      /\ Append(old, row) # <<>>
      /\ old = <<>> <=> Len(old) = 0
  BY <1>1, <1>2
<1>9. outstanding[p] = IF old = <<>> THEN 0 ELSE old[Len(old)].balance
  BY DEF LedgerIsAChain
<1>10. ASSUME NEW n \in 1..Len(ledger'[p])
       PROVE  ledger'[p][n].balance =
                  ledger'[p][n].change + IF n = 1 THEN 0 ELSE ledger'[p][n - 1].balance
  <2>1. CASE n = Len(old) + 1
    <3>1. ledger'[p][n] = row
      BY <1>7, <1>8, <2>1
    <3>2. outstanding[p] = IF n = 1 THEN 0 ELSE ledger'[p][n - 1].balance
      <4>1. CASE n = 1
        BY <1>8, <1>9, <2>1, <4>1
      <4>2. CASE n # 1
        <5>1. n - 1 = Len(old) /\ Len(old) \in 1..Len(old) /\ old # <<>>
          BY <1>8, <2>1, <4>2
        <5>2. ledger'[p][n - 1] = old[Len(old)]
          BY <1>7, <1>8, <5>1
        <5> QED
          BY <1>9, <4>2, <5>1, <5>2
      <4> QED
        BY <4>1, <4>2
    <3> QED
      BY <1>1, <3>1, <3>2
  <2>2. CASE n # Len(old) + 1
    <3>1. n \in 1..Len(old)
      BY <1>7, <1>8, <2>2
    <3>2. old[n].balance = old[n].change + IF n = 1 THEN 0 ELSE old[n - 1].balance
      BY <3>1 DEF LedgerIsAChain
    <3>3. ledger'[p][n] = old[n]
      BY <1>7, <1>8, <3>1
    <3>4. n # 1 => ledger'[p][n - 1] = old[n - 1]
      <4>1. n # 1 => n - 1 \in 1..Len(old)
        BY <1>8, <3>1
      <4> QED
        BY <1>7, <1>8, <4>1
    <3> QED
      BY <3>2, <3>3, <3>4
  <2> QED
    BY <2>1, <2>2
<1>11. outstanding'[p] = IF ledger'[p] = <<>> THEN 0 ELSE ledger'[p][Len(ledger'[p])].balance
  <2>1. ledger'[p][Len(ledger'[p])] = row
    BY <1>7, <1>8
  <2> QED
    BY <1>7, <1>8, <2>1
<1>12. LedgerIsAChain'
  <2> SUFFICES ASSUME NEW o \in Parties
               PROVE  /\ \A n \in 1..Len(ledger'[o]) :
                            ledger'[o][n].balance =
                              ledger'[o][n].change
                              + IF n = 1 THEN 0 ELSE ledger'[o][n - 1].balance
                      /\ outstanding'[o] = IF ledger'[o] = <<>> THEN 0
                                           ELSE ledger'[o][Len(ledger'[o])].balance
    BY DEF LedgerIsAChain
  <2>1. CASE o = p
    BY <1>10, <1>11, <2>1
  <2>2. CASE o # p
    BY <1>7, <2>2 DEF LedgerIsAChain
  <2> QED
    BY <2>1, <2>2
<1> QED
  BY <1>4, <1>6, <1>12

(* The balances that others read survive a row of a party they do not hold.*)
LEMMA StepCommitEntry ==
    ASSUME IInv, NEW c \in Clients, CommitEntry(c)
    PROVE  IInv'
<1> DEFINE o == req[c]
<1>1. /\ o.op = "entry"
      /\ WriteLedger(o.party, o.change, o.balance)
      /\ Unlock(c)
      /\ req' = [req EXCEPT ![c] = Idle]
      /\ UNCHANGED <<suppliers, status, payments>>
  BY DEF CommitEntry
<1>2. TypeOK /\ o \in {Idle} \cup PaymentReq \cup EntryReq
  BY DEF IInv, TypeOK
<1>3. o.party \in Parties /\ o.change \in Int /\ Holds(o) = o.party
  BY <1>1, <1>2, RequestTypes, HoldsByStep
<1>4. o.balance = outstanding[o.party] + o.change
  <2>1. o.party # NoParty
    BY <1>3, ReceivablesAssumption
  <2> QED
    BY <1>1, <1>3, <2>1 DEF IInv, BalancesCurrent, Change
<1>5. /\ LedgerIsAChain'
      /\ outstanding' \in [Parties -> Int]
      /\ ledger' \in [Parties -> Seq(LedgerRow)]
  BY <1>1, <1>2, <1>3, <1>4, ChainGrows DEF IInv
<1>6. TypeOK'
  BY <1>1, <1>2, <1>5, LettingGo DEF TypeOK
<1>7. ASSUME NEW d \in Clients
      PROVE  CurrentAt(req[d])'
  <2>1. CASE d = c
    <3>1. req'[d] = Idle
      BY <1>1, <1>2, <2>1 DEF TypeOK
    <3> QED
      BY <3>1, HoldsByStep DEF CurrentAt, Idle, Holds, CreditedParty
  <2>2. CASE d # c
    <3>1. req'[d] = req[d] /\ CurrentAt(req[d])
      BY <1>1, <1>2, <2>2, RequestsCurrent DEF TypeOK, IInv
    <3>2. Holds(req[d]) # NoParty => outstanding'[Holds(req[d])] = outstanding[Holds(req[d])]
      <4>1. Holds(req[d]) \in Customers
        BY <1>2, HoldsByStep DEF TypeOK
      <4>2. Holds(req[d]) # NoParty => Holds(req[d]) # o.party
        BY <1>2, <1>3, <2>2, HeldOnce
      <4> QED
        BY <1>1, <1>2, <4>1, <4>2 DEF WriteLedger, Customers, TypeOK
    <3> QED
      BY <1>1, <3>1, <3>2 DEF CurrentAt, Holds, CreditedParty, Change
  <2> QED
    BY <2>1, <2>2
<1>8. BalancesCurrent' /\ SeenIsPaid' /\ SumsCurrent'
  BY <1>7 DEF BalancesCurrent, SeenIsPaid, SumsCurrent, CurrentAt
<1>9. PaidWhenCovered'
  BY <1>1 DEF IInv, PaidWhenCovered
<1> QED
  BY <1>5, <1>6, <1>8, <1>9 DEF IInv

LEMMA StepCommitPayment ==
    ASSUME IInv, NEW c \in Clients, CommitPayment(c)
    PROVE  IInv'
<1> DEFINE o == req[c]
           i == o.invoice
           p == CreditedParty(o)
<1>1. /\ o.op = "summed"
      /\ payments' = [payments EXCEPT ![i] = @ + o.amount]
      /\ status' = IF Covered(o) THEN [status EXCEPT ![i] = "PAID"] ELSE status
      /\ IF p = NoParty THEN UNCHANGED <<outstanding, ledger>>
         ELSE WriteLedger(p, -o.amount, o.balance)
      /\ Unlock(c)
      /\ req' = [req EXCEPT ![c] = Idle]
      /\ UNCHANGED suppliers
  BY DEF CommitPayment
<1>2. TypeOK /\ o \in {Idle} \cup PaymentReq \cup EntryReq
  BY DEF IInv, TypeOK
<1>3. /\ i \in Invoices
      /\ o.amount \in Nat \ {0}
      /\ o.seen \in {"CREDIT", "PAID"}
      /\ o.sum \in Nat
      /\ p \in Customers
      /\ Holds(o) = p
  BY <1>1, <1>2, RequestTypes, HoldsByStep
<1>4. CurrentAt(o)
  BY RequestsCurrent DEF IInv
<1>5. /\ payments' \in [Invoices -> Nat]
      /\ status' \in [Invoices -> {"CREDIT", "PAID"}]
      /\ payments'[i] = payments[i] + o.amount
      /\ \A j \in Invoices : j # i => payments'[j] = payments[j] /\ status'[j] = status[j]
      /\ Covered(o) => status'[i] = "PAID"
      /\ ~Covered(o) => status'[i] = status[i]
  <2>1. payments \in [Invoices -> Nat] /\ status \in [Invoices -> {"CREDIT", "PAID"}]
    BY <1>2 DEF TypeOK
  <2> QED
    BY <1>1, <1>3, <2>1
<1>6. /\ LedgerIsAChain'
      /\ outstanding' \in [Parties -> Int]
      /\ ledger' \in [Parties -> Seq(LedgerRow)]
  <2>1. CASE p = NoParty
    <3>1. UNCHANGED <<outstanding, ledger>>
      BY <1>1, <2>1
    <3> QED
      BY <1>2, <3>1 DEF LedgerIsAChain, IInv, TypeOK
  <2>2. CASE p # NoParty
    <3>1. p \in Parties /\ -o.amount \in Int
      BY <1>3, <2>2 DEF Customers
    <3>2. o.balance = outstanding[p] + (-o.amount)
      BY <1>1, <1>3, <1>4, <2>2 DEF CurrentAt, Change
    <3>3. WriteLedger(p, -o.amount, outstanding[p] + (-o.amount))
      BY <1>1, <2>2, <3>2
    <3>4. LedgerIsAChain
      BY DEF IInv
    <3> QED
      BY <1>2, <3>1, <3>3, <3>4, ChainGrows
  <2> QED
    BY <2>1, <2>2
<1>7. TypeOK'
  BY <1>1, <1>2, <1>5, <1>6, LettingGo DEF TypeOK
(* Who else works on the invoice, and still sees it open, waits for the row.*)
<1>8. ASSUME NEW d \in Clients, d # c
      PROVE  CurrentAt(req[d])'
  <2> DEFINE q == req[d]
  <2>1. req'[d] = q /\ CurrentAt(q)
    BY <1>1, <1>2, <1>8, RequestsCurrent DEF TypeOK, IInv
  <2>2. q \in {Idle} \cup PaymentReq \cup EntryReq /\ Holds(q) \in Customers
    BY <1>2, HoldsByStep DEF TypeOK
  <2>3. Holds(q) # NoParty => q.balance = outstanding'[Holds(q)] + Change(q)
    <3>1. Holds(q) # NoParty => Holds(q) # p
      BY <1>2, <1>3, <1>8, HeldOnce
    <3>2. Holds(q) # NoParty => outstanding'[Holds(q)] = outstanding[Holds(q)]
      BY <1>1, <1>2, <1>3, <2>2, <3>1 DEF WriteLedger, Customers, TypeOK
    <3> QED
      BY <2>1, <3>2 DEF CurrentAt
  <2>4. q.op \in {"pay", "posted", "summed"} /\ q.seen = "PAID" => status'[q.invoice] = "PAID"
    <3>1. q.op \in {"pay", "posted", "summed"} => q.invoice \in Invoices
      BY <2>2, RequestTypes
    <3> QED
      BY <1>3, <1>5, <2>1, <3>1 DEF CurrentAt
  <2>5. q.op = "summed" =>
           /\ q.sum <= payments'[q.invoice] + q.amount
           /\ Sold[q.invoice].party # NoParty /\ status'[q.invoice] = "CREDIT"
                  => q.sum = payments'[q.invoice] + q.amount
    <3> SUFFICES ASSUME q.op = "summed"
                 PROVE  /\ q.sum <= payments'[q.invoice] + q.amount
                        /\ Sold[q.invoice].party # NoParty /\ status'[q.invoice] = "CREDIT"
                             => q.sum = payments'[q.invoice] + q.amount
      OBVIOUS
    <3>1. /\ q.invoice \in Invoices /\ q.sum \in Nat /\ q.amount \in Nat
          /\ q.seen \in {"CREDIT", "PAID"}
          /\ Holds(q) = CreditedParty(q)
      BY <2>2, RequestTypes, HoldsByStep
    <3>2. /\ payments[q.invoice] \in Nat
          /\ payments[q.invoice] <= payments'[q.invoice]
          /\ payments'[q.invoice] \in Nat
      <4>1. /\ payments[q.invoice] \in Nat /\ payments'[q.invoice] \in Nat
            /\ payments[i] \in Nat
        BY <1>2, <1>3, <1>5, <3>1 DEF TypeOK
      <4>2. CASE q.invoice = i
        BY <1>3, <1>5, <4>1, <4>2
      <4>3. CASE q.invoice # i
        BY <1>5, <3>1, <4>1, <4>3
      <4> QED
        BY <4>1, <4>2, <4>3
    <3>3. q.sum <= payments[q.invoice] + q.amount
      BY <2>1 DEF CurrentAt
    <3>4. q.sum <= payments'[q.invoice] + q.amount
      BY <3>1, <3>2, <3>3
    <3>5. ASSUME Sold[q.invoice].party # NoParty, status'[q.invoice] = "CREDIT"
          PROVE  q.sum = payments'[q.invoice] + q.amount
      <4>1. CASE q.invoice # i
        BY <1>5, <2>1, <3>1, <3>5, <4>1 DEF CurrentAt
      <4>2. CASE q.invoice = i
        <5>1. status[i] = "CREDIT"
          BY <1>2, <1>3, <1>5, <3>5, <4>2 DEF TypeOK
        <5>2. q.seen = "CREDIT" /\ o.seen = "CREDIT"
          BY <1>1, <1>3, <1>4, <2>1, <3>1, <4>2, <5>1 DEF CurrentAt
        <5>3. CreditedParty(q) = p /\ p # NoParty
          BY <3>5, <4>2, <5>2 DEF CreditedParty
        <5>4. Holds(req[c]) = Holds(req[d]) /\ Holds(req[c]) # NoParty
          BY <1>3, <3>1, <5>3
        <5>5. c = d
          BY <1>2, <5>4, HeldOnce
        <5> QED
          BY <1>8, <5>5
      <4> QED
        BY <4>1, <4>2
    <3> QED
      BY <3>4, <3>5
  <2> QED
    BY <1>1, <2>1, <2>3, <2>4, <2>5 DEF CurrentAt, Holds, CreditedParty, Change
<1>9. CurrentAt(req[c])'
  <2>1. req'[c] = Idle
    BY <1>1, <1>2 DEF TypeOK
  <2> QED
    BY <2>1, HoldsByStep DEF CurrentAt, Idle, Holds, CreditedParty
<1>10. BalancesCurrent' /\ SeenIsPaid' /\ SumsCurrent'
  BY <1>8, <1>9 DEF BalancesCurrent, SeenIsPaid, SumsCurrent, CurrentAt
<1>11. PaidWhenCovered'
  <2> SUFFICES ASSUME NEW j \in Invoices, Sold[j].party # NoParty
               PROVE  status'[j] = "PAID" <=> payments'[j] >= Sold[j].total
    BY DEF PaidWhenCovered
  <2>1. status[j] = "PAID" <=> payments[j] >= Sold[j].total
    BY DEF IInv, PaidWhenCovered
  <2>2. CASE j # i
    BY <1>5, <2>1, <2>2
  <2>3. CASE j = i
    <3>1. /\ Sold[i].total \in Nat /\ payments[i] \in Nat
          /\ status[i] \in {"CREDIT", "PAID"}
      BY <1>2, <1>3, ReceivablesAssumption DEF TypeOK
    <3>2. CASE status[i] = "PAID"
      <4>1. status'[i] = "PAID"
        BY <1>5, <3>2
      <4>2. payments'[i] >= Sold[i].total
        BY <1>3, <1>5, <2>1, <2>3, <3>1, <3>2
      <4> QED
        BY <2>3, <4>1, <4>2
    <3>3. CASE status[i] = "CREDIT"
      <4>1. o.sum = payments'[i]
        BY <1>1, <1>4, <1>5, <2>3, <3>3 DEF CurrentAt
      <4>2. Covered(o) <=> payments'[i] >= Sold[i].total
        BY <4>1 DEF Covered
      <4>3. status'[i] = "PAID" <=> Covered(o)
        BY <1>5, <3>3
      <4> QED
        BY <2>3, <4>2, <4>3
    <3> QED
      BY <3>1, <3>2, <3>3
  <2> QED
    BY <2>2, <2>3
<1> QED
  BY <1>6, <1>7, <1>10, <1>11 DEF IInv

LEMMA StepIInv == IInv /\ [Next]_vars => IInv'
<1> SUFFICES ASSUME IInv, [Next]_vars PROVE IInv'
  OBVIOUS
<1>1. ASSUME NEW c \in Clients, BeginPayment(c) PROVE IInv'
  BY <1>1, StepBeginPayment
<1>2. ASSUME NEW c \in Clients, PostPayment(c) PROVE IInv'
  BY <1>2, StepPostPayment
<1>3. ASSUME NEW c \in Clients, SumPayments(c) PROVE IInv'
  BY <1>3, StepSumPayments
<1>4. ASSUME NEW c \in Clients, CommitPayment(c) PROVE IInv'
  BY <1>4, StepCommitPayment
<1>5. ASSUME NEW c \in Clients, BeginEntry(c) PROVE IInv'
  BY <1>5, StepBeginEntry
<1>6. ASSUME NEW c \in Clients, CommitEntry(c) PROVE IInv'
  BY <1>6, StepCommitEntry
<1>7. ASSUME NEW c \in Clients, BeginApply(c) PROVE IInv'
  BY <1>7, StepBeginApply
<1>8. ASSUME NEW c \in Clients, LockApply(c) PROVE IInv'
  BY <1>8, StepLockApply
<1>9. ASSUME NEW c \in Clients, Rollback(c) PROVE IInv'
  BY <1>9, StepRollback
<1>10. ASSUME NEW p \in Parties, NEW b \in BOOLEAN, EditParty(p, b) PROVE IInv'
  BY <1>10, StepEditParty
<1>11. CASE UNCHANGED vars
  BY <1>11 DEF IInv, TypeOK, BalancesCurrent, SeenIsPaid, SumsCurrent, PaidWhenCovered,
               LedgerIsAChain, Holds, CreditedParty, Change, vars, tables
<1> QED
  BY <1>1, <1>2, <1>3, <1>4, <1>5, <1>6, <1>7, <1>8, <1>9, <1>10, <1>11 DEF Next

LEMMA Inductive == Spec => []IInv
<1>1. Init => IInv
  BY InitIInv
<1>2. IInv /\ [Next]_vars => IInv'
  BY StepIInv
<1> QED
  BY <1>1, <1>2, PTL DEF Spec

(* The tables of the receivables have their types, and a party's row is    *)
(* held by exactly the request whose transaction has updated it.           *)
THEOREM ReceivablesType == Spec => []TypeOK
<1>1. IInv => TypeOK
  BY DEF IInv
<1> QED
  BY <1>1, Inductive, PTL

(* An invoice of a linked customer is PAID exactly when its payments cover *)
(* its total, whatever payments race (billing.js 783-806).                 *)
THEOREM PaymentsClose == Spec => []PaidWhenCovered
<1>1. IInv => PaidWhenCovered
  BY DEF IInv
<1> QED
  BY <1>1, Inductive, PTL

(* Every row of a party's ledger carries the balance on from the row       *)
(* before, however many requests write it (parties.js, billing.js 58-80).  *)
THEOREM LedgerChains == Spec => []LedgerIsAChain
<1>1. IInv => LedgerIsAChain
  BY DEF IInv
<1> QED
  BY <1>1, Inductive, PTL
=============================================================================
