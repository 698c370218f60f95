----------------------------- MODULE StoreProofs -----------------------------
(***************************************************************************)
(* Theorems about the store, for every number of parts, customers and      *)
(* concurrent requests and every set of carts and forms.                   *)
(***************************************************************************)
EXTENDS Exchanges, Sums, TLAPS

(* Quantities are closed under addition, and under the subtraction of      *)
(* what they cover.                                                        *)
LEMMA QuantityArithmetic ==
    /\ Nothing \in Quantities
    /\ \A a, b \in Quantities :
        /\ Plus(a, b) \in Quantities
        /\ Covers(a, b) => Minus(a, b) \in Quantities
<1>1. Nothing \in Quantities
  BY DEF Nothing, Quantities
<1>2. ASSUME NEW a \in Quantities, NEW b \in Quantities
      PROVE  Plus(a, b) \in Quantities
  BY DEF Plus, Quantities
<1>3. ASSUME NEW a \in Quantities, NEW b \in Quantities, Covers(a, b)
      PROVE  Minus(a, b) \in Quantities
  <2>1. ASSUME NEW p \in Parts
        PROVE  a[p] - b[p] \in Nat
    <3>1. a[p] \in Nat /\ b[p] \in Nat
      BY DEF Quantities
    <3>2. b[p] <= a[p]
      BY <1>3 DEF Covers
    <3> QED
      BY <3>1, <3>2
  <2> QED
    BY <2>1 DEF Minus, Quantities
<1> QED
  BY <1>1, <1>2, <1>3

(* The rows that the two desks insert have the types of their tables.      *)
LEMMA NewInvoiceType ==
    ASSUME TypeOK, NEW q \in InvoiceReq
    PROVE  NewInvoice(q) \in Invoice
<1>1. /\ SeriesOf(q.kind) \in {"INV", "EST"}
      /\ SeriesOf(q.kind) \in Series
  BY DEF SeriesOf, Series
<1>2. NextSeq(SeriesOf(q.kind)) \in Nat
  BY <1>1 DEF TypeOK, NextSeq
<1>3. /\ q.kind \in Kinds
      /\ q.cart \in Carts
      /\ q.credit \in Nat
      /\ q.note \in Nat
      /\ q.applied \in Nat
  <2>1. /\ q.kind \in InvoiceKinds
        /\ q.cart \in Carts
        /\ q.credit \in CreditAmounts
        /\ q.note \in 0..MaxNotes
        /\ q.applied \in AppliedAmounts
    BY DEF InvoiceReq
  <2>2. q.kind \in Kinds /\ q.credit \in Nat
    BY <2>1, BillingAssumption
  <2>3. q.note \in Nat
    BY <2>1
  <2>4. q.applied \in Nat
    BY <2>1, BillingAssumption
  <2> QED
    BY <2>1, <2>2, <2>3, <2>4
<1>4. ResolvedParty(q) \in Customers
  BY DEF InvoiceReq, ResolvedParty, Customers
<1>5. Nothing \in Quantities
  BY QuantityArithmetic
<1> QED
  BY <1>1, <1>2, <1>3, <1>4, <1>5 DEF NewInvoice, Invoice

LEMMA NewNoteType ==
    ASSUME TypeOK, NEW f \in ReturnForms, NEW m \in RefundModes, NEW c \in Customers
    PROVE  /\ NewNote(f, m, c) \in CreditNote
           /\ StoreCredit(m, f) \in Nat
<1>1. NextSeq("CN") \in Nat
  BY DEF TypeOK, NextSeq, Series
<1>2. ReturnTotal[f] \in Nat
  BY ReturnsAssumption
<1> QED
  BY <1>1, <1>2 DEF NewNote, StoreCredit, CreditNote

(* A ledger row moves one customer's balance and keeps it a number.        *)
LEMMA WriteLedgerType ==
    ASSUME TypeOK, NEW c \in Customers, NEW d \in Nat, NEW k \in Nat
    PROVE  WriteLedger(c, d, k) \in [Parties -> Int]
BY DEF TypeOK, WriteLedger, Customers

(* A request's own record, once it is known which desk serves it.          *)
LEMMA RequestKind ==
    ASSUME TypeOK, NEW r \in Reqs
    PROVE  /\ req[r].op = "invoice" => req[r] \in InvoiceReq
           /\ req[r].op = "return" => req[r] \in ReturnReq
BY DEF TypeOK, Idle, InvoiceReq, ReturnReq

-----------------------------------------------------------------------------
(* TypeOK is inductive as it stands.  What it says about stock and about   *)
(* the balance of a note needs the guards inside the transactions; what it *)
(* says about the requests needs that invoices and notes are never deleted.*)
LEMMA TypeInit == Init => TypeOK
<1> SUFFICES ASSUME Init PROVE TypeOK
  OBVIOUS
<1>1. Nothing \in Quantities /\ Opening \in Quantities
  BY QuantityArithmetic, ShopAssumption
<1>2. invoices \in Seq(Invoice) /\ notes \in Seq(CreditNote) /\ Len(notes) <= MaxReturns
  BY ReturnsAssumption DEF Init, TablesInit
<1>3. moved \in [MoveTypes -> Quantities]
  BY <1>1 DEF Init, TablesInit
<1> QED
  BY <1>1, <1>2, <1>3 DEF Init, TablesInit, TypeOK, Idle

LEMMA TypeSubmitInvoice ==
    ASSUME TypeOK, NEW r \in Reqs, SubmitInvoice(r)
    PROVE  TypeOK'
<1>1. PICK q \in InvoiceReq : q.note <= Len(notes) /\ req' = [req EXCEPT ![r] = q]
  <2>1. PICK q \in InvoiceReq : PreflightNote(q) /\ req' = [req EXCEPT ![r] = q]
    BY DEF SubmitInvoice
  <2>2. q.note <= Len(notes)
    <3>1. q.note \in 0..MaxNotes /\ Len(notes) \in Nat
      BY DEF TypeOK, InvoiceReq
    <3> QED
      BY <2>1, <3>1 DEF PreflightNote
  <2> QED
    BY <2>1, <2>2
<1>2. q.op = "invoice"
  BY DEF InvoiceReq
<1> QED
  BY <1>1, <1>2 DEF SubmitInvoice, TypeOK, tables

LEMMA TypeCommitInvoice ==
    ASSUME TypeOK, NEW r \in Reqs, CommitInvoice(r)
    PROVE  TypeOK'
<1> DEFINE q == req[r]
<1>1. q \in InvoiceReq /\ q.note <= Len(notes)
  BY RequestKind DEF CommitInvoice, TypeOK
<1>2. q.cart \in Quantities
  BY <1>1, ShopAssumption DEF InvoiceReq
<1>3. stockQty' \in Quantities
  <2>1. q.kind = "SALE" => Covers(stockQty, q.cart)
    BY DEF CommitInvoice, StockGuard
  <2>2. StockAfter(q) \in Quantities
    BY <1>2, <2>1, QuantityArithmetic DEF StockAfter, TypeOK
  <2> QED
    BY <2>2 DEF CommitInvoice
<1>4. moved' \in [MoveTypes -> Quantities]
  <2>1. MoveTypeOf(q.kind) \in MoveTypes
    BY DEF MoveTypeOf, MoveTypes
  <2>2. Plus(moved[MoveTypeOf(q.kind)], q.cart) \in Quantities
    BY <1>2, <2>1, QuantityArithmetic DEF TypeOK
  <2> QED
    BY <2>2 DEF CommitInvoice, TypeOK
<1>5. counters' \in [Series -> Nat]
  <2>1. SeriesOf(q.kind) \in Series
    BY DEF SeriesOf, Series
  <2> QED
    BY <2>1 DEF CommitInvoice, Bump, TypeOK
<1>6. invoices' \in Seq(Invoice) /\ Len(invoices') = Len(invoices) + 1
  BY <1>1, NewInvoiceType DEF CommitInvoice, TypeOK
<1>7. notes' \in Seq(CreditNote) /\ Len(notes') = Len(notes)
  <2>1. CASE q.note = 0
    BY <2>1 DEF CommitInvoice, TypeOK
  <2>2. CASE q.note # 0
    <3>1. q.note \in 1..Len(notes) /\ q.applied \in Nat
      <4>1. q.note \in 0..MaxNotes /\ q.applied \in AppliedAmounts
        BY <1>1 DEF InvoiceReq
      <4>2. q.applied \in Nat
        BY <4>1, BillingAssumption
      <4>3. q.note \in 1..Len(notes)
        BY <1>1, <2>2, <4>1 DEF TypeOK
      <4> QED
        BY <4>2, <4>3
    <3>2. notes[q.note] \in CreditNote
      BY <3>1 DEF TypeOK
    <3>3. notes[q.note].remaining - q.applied \in Nat
      <4>1. notes[q.note].remaining \in Nat
        BY <3>2 DEF CreditNote
      <4>2. q.applied <= notes[q.note].remaining
        BY <2>2 DEF CommitInvoice, NoteGuard
      <4> QED
        BY <3>1, <4>1, <4>2
    <3>4. Redeem(notes[q.note], q.applied) \in CreditNote
      BY <3>2, <3>3 DEF Redeem, CreditNote
    <3>5. notes' = [notes EXCEPT ![q.note] = Redeem(notes[q.note], q.applied)]
      BY <2>2 DEF CommitInvoice
    <3> QED
      BY <3>1, <3>4, <3>5 DEF TypeOK
  <2> QED
    BY <2>1, <2>2
<1>8. outstanding' \in [Parties -> Int]
  <2>1. ResolvedParty(q) \in Customers
    BY <1>1 DEF InvoiceReq, ResolvedParty, Customers
  <2>2. q.credit \in Nat /\ q.applied \in Nat
    BY <1>1, BillingAssumption DEF InvoiceReq
  <2>3. q.credit + q.applied \in Nat
    BY <2>2
  <2> QED
    BY <2>1, <2>3, WriteLedgerType DEF CommitInvoice
<1>9. damagedQty' \in Quantities
  BY DEF CommitInvoice, TypeOK
<1>10. /\ req' \in [Reqs -> {Idle} \cup InvoiceReq \cup ReturnReq]
       /\ \A s \in Reqs :
            /\ req'[s].op = "return" => req'[s].invoice \in 1..Len(invoices')
            /\ req'[s].op = "invoice" => req'[s].note <= Len(notes')
  <2>1. req' = [req EXCEPT ![r] = Idle]
    BY DEF CommitInvoice
  <2>2. Len(invoices) \in Nat
    BY DEF TypeOK
  <2> QED
    BY <2>1, <2>2, <1>6, <1>7 DEF TypeOK, Idle
<1>11. Len(notes') <= MaxReturns
  BY <1>7 DEF TypeOK
<1> QED
  BY <1>3, <1>4, <1>5, <1>6, <1>7, <1>8, <1>9, <1>10, <1>11 DEF TypeOK

LEMMA TypeConvertEstimate ==
    ASSUME TypeOK, NEW i \in 1..Len(invoices), ConvertEstimate(i)
    PROVE  TypeOK'
<1>1. invoices' \in Seq(Invoice) /\ Len(invoices') = Len(invoices)
  <2>1. [invoices[i] EXCEPT !.status = "CONVERTED"] \in Invoice
    <3>1. invoices[i] \in Invoice
      BY DEF TypeOK
    <3> QED
      BY <3>1 DEF Invoice
  <2>2. invoices' = [invoices EXCEPT ![i] = [invoices[i] EXCEPT !.status = "CONVERTED"]]
    BY DEF ConvertEstimate
  <2> QED
    BY <2>1, <2>2 DEF TypeOK
<1> QED
  BY <1>1 DEF ConvertEstimate, TypeOK

LEMMA TypeBeginReturn ==
    ASSUME TypeOK, NEW r \in Reqs, BeginReturn(r)
    PROVE  TypeOK'
<1>1. PICK i \in 1..Len(invoices), f \in ReturnForms, m \in RefundModes :
        req' = [req EXCEPT ![r] =
                  [op |-> "return", invoice |-> i, form |-> f, mode |-> m,
                   seen |-> invoices[i].returned, attempt |-> 1]]
  BY DEF BeginReturn
<1> DEFINE q == [op |-> "return", invoice |-> i, form |-> f, mode |-> m,
                 seen |-> invoices[i].returned, attempt |-> 1]
<1>2. q \in ReturnReq /\ q.op = "return" /\ q.invoice = i
  <2>1. invoices[i] \in Invoice /\ i \in Nat
    BY DEF TypeOK
  <2> QED
    BY <2>1 DEF Invoice, ReturnReq
<1>3. req' = [req EXCEPT ![r] = q]
  BY <1>1
<1> HIDE DEF q
<1> QED
  BY <1>2, <1>3 DEF BeginReturn, tables, TypeOK

(* What a return posts, typed once for the two kinds of return.            *)
LEMMA TypePostReturn ==
    ASSUME TypeOK, Len(notes) < MaxReturns,
           NEW f \in ReturnForms, NEW m \in RefundModes, NEW c \in Customers,
           PostReturn(f, m, c)
    PROVE  /\ stockQty' \in Quantities
           /\ damagedQty' \in Quantities
           /\ moved' \in [MoveTypes -> Quantities]
           /\ counters' \in [Series -> Nat]
           /\ notes' \in Seq(CreditNote)
           /\ Len(notes') = Len(notes) + 1
           /\ Len(notes') <= MaxReturns
           /\ outstanding' \in [Parties -> Int]
<1>1. f.good \in Quantities /\ f.bad \in Quantities
  BY ReturnsAssumption
<1>2. stockQty' \in Quantities /\ damagedQty' \in Quantities
  BY <1>1, QuantityArithmetic DEF PostReturn, TypeOK
<1>3. moved' \in [MoveTypes -> Quantities]
  <2>1. /\ Plus(moved["SALES_RETURN_IN"], f.good) \in Quantities
        /\ Plus(moved["SALES_RETURN_DAMAGED"], f.bad) \in Quantities
    BY <1>1, QuantityArithmetic DEF TypeOK, MoveTypes
  <2> QED
    BY <2>1 DEF PostReturn, TypeOK
<1>4. counters' \in [Series -> Nat]
  <2>1. counters["RET"] + 1 \in Nat /\ counters["CN"] + 1 \in Nat
    BY DEF TypeOK, Series
  <2> QED
    BY <2>1 DEF PostReturn, TypeOK
<1>5. notes' \in Seq(CreditNote) /\ Len(notes') = Len(notes) + 1
  BY NewNoteType DEF PostReturn, TypeOK
<1>6. Len(notes') <= MaxReturns
  BY <1>5, ReturnsAssumption DEF TypeOK
<1>7. outstanding' \in [Parties -> Int]
  BY NewNoteType, WriteLedgerType DEF PostReturn
<1> QED
  BY <1>2, <1>3, <1>4, <1>5, <1>6, <1>7

(* The customer of an invoice is one the shop knows, or nobody.            *)
LEMMA ReturnRequest ==
    ASSUME TypeOK, NEW r \in Reqs, req[r].op = "return"
    PROVE  /\ req[r].invoice \in 1..Len(invoices)
           /\ invoices[req[r].invoice] \in Invoice
           /\ invoices[req[r].invoice].party \in Customers
           /\ invoices[req[r].invoice].returned \in Quantities
           /\ req[r].form \in ReturnForms
           /\ req[r].form.good \in Quantities
           /\ req[r].form.bad \in Quantities
           /\ req[r].mode \in RefundModes
<1>1. req[r] \in ReturnReq /\ req[r].invoice \in 1..Len(invoices)
  BY RequestKind DEF TypeOK
<1>2. req[r].form \in ReturnForms /\ req[r].mode \in RefundModes
  BY <1>1 DEF ReturnReq
<1>3. req[r].form.good \in Quantities /\ req[r].form.bad \in Quantities
  BY <1>2, ReturnsAssumption
<1>4. invoices[req[r].invoice] \in Invoice
  BY <1>1 DEF TypeOK
<1>5. /\ invoices[req[r].invoice].party \in Customers
      /\ invoices[req[r].invoice].returned \in Quantities
  BY <1>4 DEF Invoice
<1> QED
  BY <1>1, <1>2, <1>3, <1>4, <1>5

LEMMA TypeCommitReturn ==
    ASSUME TypeOK, NEW r \in Reqs, CommitReturn(r)
    PROVE  TypeOK'
<1> DEFINE q == req[r]
           units == Plus(invoices[q.invoice].returned, AllUnits(q.form))
<1>1. q.op = "return" /\ Len(notes) < MaxReturns
  BY DEF CommitReturn
<1>2. units \in Quantities
  BY <1>1, ReturnRequest, QuantityArithmetic DEF AllUnits
<1>3. invoices' \in Seq(Invoice) /\ Len(invoices') = Len(invoices)
  <2>1. [invoices[q.invoice] EXCEPT !.returned = units] \in Invoice
    <3> HIDE DEF units
    <3> QED
      BY <1>1, <1>2, ReturnRequest DEF Invoice
  <2>2. invoices' = [invoices EXCEPT ![q.invoice] =
                       [invoices[q.invoice] EXCEPT !.returned = units]]
    BY DEF CommitReturn
  <2> QED
    BY <1>1, <2>1, <2>2, ReturnRequest DEF TypeOK
<1>4. PostReturn(q.form, q.mode, invoices[q.invoice].party)
  BY DEF CommitReturn
<1>5. /\ stockQty' \in Quantities
      /\ damagedQty' \in Quantities
      /\ moved' \in [MoveTypes -> Quantities]
      /\ counters' \in [Series -> Nat]
      /\ notes' \in Seq(CreditNote)
      /\ Len(notes') = Len(notes) + 1
      /\ Len(notes') <= MaxReturns
      /\ outstanding' \in [Parties -> Int]
  BY <1>1, <1>4, ReturnRequest, TypePostReturn
<1>6. req' = [req EXCEPT ![r] = Idle]
  BY DEF CommitReturn
<1>7. Len(notes) \in Nat /\ Len(invoices) \in Nat
  BY DEF TypeOK
<1>8. /\ req' \in [Reqs -> {Idle} \cup InvoiceReq \cup ReturnReq]
      /\ \A s \in Reqs :
           /\ req'[s].op = "return" => req'[s].invoice \in 1..Len(invoices')
           /\ req'[s].op = "invoice" => req'[s].note <= Len(notes')
  <2>1. req' \in [Reqs -> {Idle} \cup InvoiceReq \cup ReturnReq]
    BY <1>6 DEF TypeOK
  <2>2. ASSUME NEW s \in Reqs
        PROVE  /\ req'[s].op = "return" => req'[s].invoice \in 1..Len(invoices')
               /\ req'[s].op = "invoice" => req'[s].note <= Len(notes')
    <3>1. CASE s = r
      BY <1>6, <3>1 DEF Idle, TypeOK
    <3>2. CASE s # r
      <4>1. req'[s] = req[s]
        BY <1>6, <3>2 DEF TypeOK
      <4>2. req[s].op = "invoice" => req[s].note \in Nat
        BY RequestKind DEF InvoiceReq
      <4> QED
        BY <4>1, <4>2, <1>3, <1>5, <1>7 DEF TypeOK
    <3> QED
      BY <3>1, <3>2
  <2> QED
    BY <2>1, <2>2
<1> QED
  BY <1>3, <1>5, <1>8 DEF TypeOK

LEMMA TypeRetryReturn ==
    ASSUME TypeOK, NEW r \in Reqs, RetryReturn(r)
    PROVE  TypeOK'
<1> DEFINE q == [req[r] EXCEPT !.seen = invoices[req[r].invoice].returned,
                               !.attempt = 2]
<1>1. req[r].op = "return"
  BY DEF RetryReturn
<1>2. q \in ReturnReq /\ q.op = "return" /\ q.invoice = req[r].invoice
  <2>1. req[r] \in ReturnReq
    BY <1>1, RequestKind
  <2> QED
    BY <1>1, <2>1, ReturnRequest DEF ReturnReq
<1>3. req' = [req EXCEPT ![r] = q]
  BY DEF RetryReturn, TypeOK
<1> HIDE DEF q
<1> QED
  BY <1>1, <1>2, <1>3, ReturnRequest DEF RetryReturn, tables, TypeOK

LEMMA TypeWalkInReturn ==
    ASSUME TypeOK, NEW f \in WalkInForms, NEW m \in RefundModes, NEW c \in Customers,
           WalkInReturn(f, m, c)
    PROVE  TypeOK'
<1>1. /\ f \in ReturnForms
      /\ Len(notes) < MaxReturns
      /\ PostReturn(f, m, c)
      /\ UNCHANGED <<invoices, req>>
  BY ReturnsAssumption DEF WalkInReturn
<1>2. /\ stockQty' \in Quantities
      /\ damagedQty' \in Quantities
      /\ moved' \in [MoveTypes -> Quantities]
      /\ counters' \in [Series -> Nat]
      /\ notes' \in Seq(CreditNote)
      /\ Len(notes') = Len(notes) + 1
      /\ Len(notes') <= MaxReturns
      /\ outstanding' \in [Parties -> Int]
  BY <1>1, TypePostReturn
<1>3. ASSUME NEW s \in Reqs
      PROVE  /\ req'[s].op = "return" => req'[s].invoice \in 1..Len(invoices')
             /\ req'[s].op = "invoice" => req'[s].note <= Len(notes')
  <2>1. req[s].op = "invoice" => req[s].note \in Nat
    BY RequestKind DEF InvoiceReq
  <2>2. Len(notes) \in Nat
    BY DEF TypeOK
  <2> QED
    BY <1>1, <1>2, <2>1, <2>2 DEF TypeOK
<1> QED
  BY <1>1, <1>2, <1>3 DEF TypeOK

LEMMA TypeRollback ==
    ASSUME TypeOK, NEW r \in Reqs, Rollback(r)
    PROVE  TypeOK'
BY DEF Rollback, TypeOK, tables, Idle

(* Every table and every request keeps its type on every behaviour: no     *)
(* stock and no credit note is ever overdrawn, whatever the carts, the     *)
(* forms and the number of requests that race (billing.js createInvoice,   *)
(* salesReturns.js).                                                       *)
THEOREM TypeCorrect == Spec => []TypeOK
<1>1. Init => TypeOK
  BY TypeInit
<1>2. TypeOK /\ [Next]_vars => TypeOK'
  <2> SUFFICES ASSUME TypeOK, [Next]_vars PROVE TypeOK'
    OBVIOUS
  <2>1. CASE BillingNext
    BY <2>1, TypeSubmitInvoice, TypeCommitInvoice, TypeConvertEstimate DEF BillingNext
  <2>2. CASE ReturnsNext
    BY <2>2, TypeBeginReturn, TypeCommitReturn, TypeRetryReturn, TypeWalkInReturn
       DEF ReturnsNext
  <2>3. CASE \E r \in Reqs : Rollback(r)
    BY <2>3, TypeRollback
  <2>4. CASE UNCHANGED vars
    BY <2>4 DEF vars, tables, TypeOK
  <2> QED
    BY <2>1, <2>2, <2>3, <2>4 DEF Next
<1> QED
  BY <1>1, <1>2, PTL DEF Spec

-----------------------------------------------------------------------------
(* Every step but a commit or a return leaves stock and movements alone.   *)
LEMMA StockStep ==
    ASSUME TypeOK, StockMatchesMovements, [Next]_vars
    PROVE  StockMatchesMovements'
<1>1. ASSUME NEW r \in Reqs, CommitInvoice(r)
      PROVE  StockMatchesMovements'
  <2> DEFINE q == req[r]
  <2>1. q \in InvoiceReq
    BY <1>1, RequestKind DEF CommitInvoice
  <2>2. q.cart \in Quantities /\ q.kind \in Kinds
    BY <2>1, ShopAssumption, BillingAssumption DEF InvoiceReq
  <2>3. /\ moved' = [moved EXCEPT ![MoveTypeOf(q.kind)] = Plus(@, q.cart)]
        /\ stockQty' = StockAfter(q)
        /\ damagedQty' = damagedQty
    BY <1>1 DEF CommitInvoice
  <2> SUFFICES ASSUME NEW p \in Parts
               PROVE  /\ stockQty'[p] = moved'["OPENING"][p] + moved'["SALES_RETURN_IN"][p]
                                        + moved'["RETURN_OUT"][p] - moved'["SALE"][p]
                      /\ damagedQty'[p] = moved'["SALES_RETURN_DAMAGED"][p]
    BY DEF StockMatchesMovements
  <2>4. /\ stockQty[p] \in Nat /\ q.cart[p] \in Nat
        /\ \A t \in MoveTypes : moved[t] \in Quantities /\ moved[t][p] \in Nat
    BY <2>2 DEF TypeOK, Quantities
  <2>5. /\ stockQty[p] = moved["OPENING"][p] + moved["SALES_RETURN_IN"][p]
                         + moved["RETURN_OUT"][p] - moved["SALE"][p]
        /\ damagedQty[p] = moved["SALES_RETURN_DAMAGED"][p]
    BY DEF StockMatchesMovements
  <2>6. CASE q.kind = "SALE"
    <3>1. /\ stockQty'[p] = stockQty[p] - q.cart[p]
          /\ moved' = [moved EXCEPT !["SALE"] = Plus(moved["SALE"], q.cart)]
      BY <2>3, <2>6 DEF MoveTypeOf, StockAfter, Plus, Minus
    <3>2. /\ moved'["SALE"][p] = moved["SALE"][p] + q.cart[p]
          /\ moved'["OPENING"] = moved["OPENING"]
          /\ moved'["RETURN_OUT"] = moved["RETURN_OUT"]
          /\ moved'["SALES_RETURN_IN"] = moved["SALES_RETURN_IN"]
          /\ moved'["SALES_RETURN_DAMAGED"] = moved["SALES_RETURN_DAMAGED"]
      BY <3>1 DEF Plus, TypeOK, MoveTypes
    <3> QED
      BY <2>3, <2>4, <2>5, <3>1, <3>2 DEF MoveTypes
  <2>7. CASE q.kind = "RETURN"
    <3>1. /\ stockQty'[p] = stockQty[p] + q.cart[p]
          /\ moved' = [moved EXCEPT !["RETURN_OUT"] = Plus(moved["RETURN_OUT"], q.cart)]
      BY <2>3, <2>7 DEF MoveTypeOf, StockAfter, Plus, Minus
    <3>2. /\ moved'["RETURN_OUT"][p] = moved["RETURN_OUT"][p] + q.cart[p]
          /\ moved'["OPENING"] = moved["OPENING"]
          /\ moved'["SALE"] = moved["SALE"]
          /\ moved'["SALES_RETURN_IN"] = moved["SALES_RETURN_IN"]
          /\ moved'["SALES_RETURN_DAMAGED"] = moved["SALES_RETURN_DAMAGED"]
      BY <3>1 DEF Plus, TypeOK, MoveTypes
    <3> QED
      BY <2>3, <2>4, <2>5, <3>1, <3>2 DEF MoveTypes
  <2>8. CASE q.kind = "ESTIMATE"
    BY <2>3, <2>4, <2>5, <2>8
       DEF MoveTypeOf, StockAfter, Plus, Minus, TypeOK, MoveTypes
  <2> QED
    BY <2>2, <2>6, <2>7, <2>8 DEF Kinds
<1>2. ASSUME NEW f \in ReturnForms, NEW m, NEW c, PostReturn(f, m, c)
      PROVE  StockMatchesMovements'
  <2>1. f.good \in Quantities /\ f.bad \in Quantities
    BY ReturnsAssumption
  <2> SUFFICES ASSUME NEW p \in Parts
               PROVE  /\ stockQty'[p] = moved'["OPENING"][p] + moved'["SALES_RETURN_IN"][p]
                                        + moved'["RETURN_OUT"][p] - moved'["SALE"][p]
                      /\ damagedQty'[p] = moved'["SALES_RETURN_DAMAGED"][p]
    BY DEF StockMatchesMovements
  <2>2. /\ stockQty[p] \in Nat /\ damagedQty[p] \in Nat
        /\ f.good[p] \in Nat /\ f.bad[p] \in Nat
        /\ \A t \in MoveTypes : moved[t] \in Quantities /\ moved[t][p] \in Nat
    BY <2>1 DEF TypeOK, Quantities
  <2>3. /\ stockQty[p] = moved["OPENING"][p] + moved["SALES_RETURN_IN"][p]
                         + moved["RETURN_OUT"][p] - moved["SALE"][p]
        /\ damagedQty[p] = moved["SALES_RETURN_DAMAGED"][p]
    BY DEF StockMatchesMovements
  <2>4. /\ stockQty'[p] = stockQty[p] + f.good[p]
        /\ damagedQty'[p] = damagedQty[p] + f.bad[p]
        /\ moved' = [moved EXCEPT !["SALES_RETURN_IN"] = Plus(moved["SALES_RETURN_IN"], f.good),
                                  !["SALES_RETURN_DAMAGED"] = Plus(moved["SALES_RETURN_DAMAGED"], f.bad)]
    BY <1>2 DEF PostReturn, Plus
  <2>5. /\ moved'["OPENING"] = moved["OPENING"]
        /\ moved'["RETURN_OUT"] = moved["RETURN_OUT"]
        /\ moved'["SALE"] = moved["SALE"]
        /\ moved'["SALES_RETURN_IN"][p] = moved["SALES_RETURN_IN"][p] + f.good[p]
        /\ moved'["SALES_RETURN_DAMAGED"][p] = moved["SALES_RETURN_DAMAGED"][p] + f.bad[p]
    BY <2>4 DEF Plus, TypeOK, MoveTypes
  <2> QED
    BY <2>2, <2>3, <2>4, <2>5 DEF MoveTypes
<1>3. ASSUME UNCHANGED <<stockQty, damagedQty, moved>>
      PROVE  StockMatchesMovements'
  BY <1>3 DEF StockMatchesMovements
<1>4. CASE BillingNext
  BY <1>1, <1>3, <1>4 DEF BillingNext, SubmitInvoice, ConvertEstimate, tables
<1>5. CASE ReturnsNext
  <2>1. ASSUME NEW r \in Reqs, CommitReturn(r) PROVE StockMatchesMovements'
    BY <2>1, <1>2, ReturnRequest DEF CommitReturn
  <2>2. ASSUME NEW f \in WalkInForms, NEW m \in RefundModes, NEW c \in Customers,
               WalkInReturn(f, m, c)
        PROVE  StockMatchesMovements'
    BY <2>2, <1>2, ReturnsAssumption DEF WalkInReturn
  <2> QED
    BY <1>3, <1>5, <2>1, <2>2 DEF ReturnsNext, BeginReturn, RetryReturn, tables
<1>6. CASE (\E r \in Reqs : Rollback(r)) \/ UNCHANGED vars
  BY <1>3, <1>6 DEF Rollback, vars, tables
<1> QED
  BY <1>4, <1>5, <1>6 DEF Next

(* On every behaviour the shelf and the damaged bin hold what the          *)
(* movements written for them say (billing.js, salesReturns.js).           *)
THEOREM StockExplained == Spec => []StockMatchesMovements
<1>1. Init => StockMatchesMovements
  <2> SUFFICES ASSUME Init PROVE StockMatchesMovements
    OBVIOUS
  <2>1. \A p \in Parts : Opening[p] \in Nat
    BY ShopAssumption DEF Quantities
  <2> QED
    <3>1. ASSUME NEW p \in Parts
          PROVE  /\ Opening[p] \in Nat
                 /\ moved["OPENING"][p] = Opening[p]
                 /\ moved["SALES_RETURN_IN"][p] = 0
                 /\ moved["RETURN_OUT"][p] = 0
                 /\ moved["SALE"][p] = 0
                 /\ moved["SALES_RETURN_DAMAGED"][p] = 0
                 /\ stockQty[p] = Opening[p]
                 /\ damagedQty[p] = 0
      BY <2>1 DEF Init, TablesInit, MoveTypes, Nothing
    <3>2. ASSUME NEW p \in Parts
          PROVE  /\ stockQty[p] = moved["OPENING"][p] + moved["SALES_RETURN_IN"][p]
                                  + moved["RETURN_OUT"][p] - moved["SALE"][p]
                 /\ damagedQty[p] = moved["SALES_RETURN_DAMAGED"][p]
      BY <3>1
    <3> QED
      BY <3>2 DEF StockMatchesMovements
<1>2. TypeOK /\ StockMatchesMovements /\ [Next]_vars => StockMatchesMovements'
  BY StockStep
<1> QED
  BY <1>1, <1>2, TypeCorrect, PTL DEF Spec

-----------------------------------------------------------------------------
(* The invoice series.  That no number repeats is not inductive alone: it  *)
(* rests on every number that was given out being at most its counter.     *)
NumbersIssued ==
    \A i \in 1..Len(invoices) : invoices[i].number <= counters[invoices[i].series]

SeriesInv == SeriesContinuous /\ NumbersIssued

LEMMA InvoiceRows ==
    ASSUME TypeOK
    PROVE  /\ Len(invoices) \in Nat
           /\ \A i \in 1..Len(invoices) :
                /\ invoices[i] \in Invoice
                /\ invoices[i].number \in Nat
                /\ invoices[i].series \in {"INV", "EST"}
                /\ invoices[i].cart \in Quantities
                /\ invoices[i].returned \in Quantities
<1>1. Len(invoices) \in Nat /\ \A i \in 1..Len(invoices) : invoices[i] \in Invoice
  BY DEF TypeOK
<1>2. \A row \in Invoice : /\ row.number \in Nat
                           /\ row.series \in {"INV", "EST"}
                           /\ row.cart \in Quantities
                           /\ row.returned \in Quantities
  BY ShopAssumption DEF Invoice
<1> QED
  BY <1>1, <1>2

(* A return and a conversion leave the identity of every invoice alone.    *)
SameSale(new, old) ==
    /\ new.series = old.series
    /\ new.number = old.number
    /\ new.kind = old.kind
    /\ new.party = old.party
    /\ new.cart = old.cart
    /\ new.credit = old.credit
    /\ new.note = old.note
    /\ new.applied = old.applied

LEMMA InvoiceUpdates ==
    ASSUME TypeOK, NEW i \in 1..Len(invoices),
           \/ ConvertEstimate(i)
           \/ \E r \in Reqs : CommitReturn(r) /\ req[r].invoice = i
    PROVE  /\ Len(invoices') = Len(invoices)
           /\ \A j \in 1..Len(invoices) :
                /\ SameSale(invoices'[j], invoices[j])
                /\ j # i => invoices'[j].returned = invoices[j].returned
<1>1. invoices[i] \in Invoice
  BY InvoiceRows
<1>2. ASSUME NEW row, invoices' = [invoices EXCEPT ![i] = row],
             SameSale(row, invoices[i])
      PROVE  /\ Len(invoices') = Len(invoices)
             /\ \A j \in 1..Len(invoices) :
                  /\ SameSale(invoices'[j], invoices[j])
                  /\ j # i => invoices'[j].returned = invoices[j].returned
  BY <1>2 DEF TypeOK, SameSale
<1>3. CASE ConvertEstimate(i)
  <2> DEFINE row == [invoices[i] EXCEPT !.status = "CONVERTED"]
  <2>1. SameSale(row, invoices[i])
    BY <1>1 DEF Invoice, SameSale
  <2>2. invoices' = [invoices EXCEPT ![i] = row]
    BY <1>3 DEF ConvertEstimate
  <2> HIDE DEF row
  <2> QED
    BY <1>2, <2>1, <2>2
<1>4. ASSUME NEW r \in Reqs, CommitReturn(r), req[r].invoice = i
      PROVE  /\ Len(invoices') = Len(invoices)
             /\ \A j \in 1..Len(invoices) :
                  /\ SameSale(invoices'[j], invoices[j])
                  /\ j # i => invoices'[j].returned = invoices[j].returned
  <2> DEFINE u == Plus(invoices[i].returned, AllUnits(req[r].form))
             row == [invoices[i] EXCEPT !.returned = u]
  <2>1. SameSale(row, invoices[i])
    BY <1>1 DEF Invoice, SameSale
  <2>2. invoices' = [invoices EXCEPT ![i] = row]
    BY <1>4 DEF CommitReturn
  <2> HIDE DEF row
  <2> QED
    BY <1>2, <2>1, <2>2
<1> QED
  BY <1>3, <1>4

LEMMA SeriesStep ==
    ASSUME TypeOK, SeriesInv, [Next]_vars
    PROVE  SeriesInv'
<1>1. ASSUME NEW r \in Reqs, CommitInvoice(r)
      PROVE  SeriesInv'
  <2> DEFINE q == req[r]
             s == SeriesOf(q.kind)
             new == NewInvoice(q)
  <2>1. /\ s \in {"INV", "EST"}
        /\ s \in Series
    BY DEF SeriesOf, Series
  <2>2. /\ counters' = [counters EXCEPT ![s] = counters[s] + 1]
        /\ invoices' = Append(invoices, new)
        /\ new.series = s
        /\ new.number = counters[s] + 1
    BY <1>1 DEF CommitInvoice, Bump, NewInvoice, NextSeq
  <2>3. /\ counters[s] \in Nat
        /\ \A t \in Series : counters[t] \in Nat
        /\ Len(invoices) \in Nat
        /\ \A i \in 1..Len(invoices) :
              invoices[i].number \in Nat /\ invoices[i].series \in {"INV", "EST"}
    BY <2>1, InvoiceRows DEF TypeOK
  <2> HIDE DEF s, new
  <2>4. /\ Len(invoices') = Len(invoices) + 1
        /\ \A i \in 1..Len(invoices) : invoices'[i] = invoices[i]
        /\ invoices'[Len(invoices) + 1] = new
    BY <2>2 DEF TypeOK
  <2>5. counters'[s] = counters[s] + 1 /\ \A t \in Series \ {s} : counters'[t] = counters[t]
    BY <2>1, <2>2 DEF TypeOK
  <2>6. InvoiceSeriesGapFree'
    <3> SUFFICES ASSUME NEW t \in {"INV", "EST"}, NEW n \in 1..counters'[t]
                 PROVE  \E i \in 1..Len(invoices') :
                           invoices'[i].series = t /\ invoices'[i].number = n
      BY DEF InvoiceSeriesGapFree
    <3>1. t \in Series /\ counters[t] \in Nat
      BY <2>3 DEF Series
    <3>2. CASE t = s /\ n = counters[s] + 1
      BY <3>2, <2>2, <2>3, <2>4
    <3>3. CASE ~(t = s /\ n = counters[s] + 1)
      <4>1. n \in 1..counters[t]
        BY <3>1, <3>3, <2>3, <2>5
      <4>2. PICK i \in 1..Len(invoices) : invoices[i].series = t /\ invoices[i].number = n
        BY <4>1 DEF SeriesInv, SeriesContinuous, InvoiceSeriesGapFree
      <4> QED
        BY <4>2, <2>3, <2>4
    <3> QED
      BY <3>2, <3>3
  <2>7. NumbersIssued'
    <3> SUFFICES ASSUME NEW i \in 1..Len(invoices')
                 PROVE  invoices'[i].number <= counters'[invoices'[i].series]
      BY DEF NumbersIssued
    <3>1. CASE i = Len(invoices) + 1
      BY <3>1, <2>2, <2>3, <2>4, <2>5
    <3>2. CASE i \in 1..Len(invoices)
      <4>1. invoices[i].number <= counters[invoices[i].series]
        BY <3>2 DEF SeriesInv, NumbersIssued
      <4>2. invoices[i].series \in Series /\ invoices'[i] = invoices[i]
        BY <3>2, <2>3, <2>4 DEF Series
      <4> QED
        BY <4>1, <4>2, <3>2, <2>3, <2>5
    <3> QED
      BY <3>1, <3>2, <2>3, <2>4
  <2>8. InvoiceNumbersUnique'
    <3>1. \A i \in 1..Len(invoices) : invoices[i].series = s => invoices[i].number # new.number
      BY <2>2, <2>3 DEF SeriesInv, NumbersIssued
    <3> SUFFICES ASSUME NEW i \in 1..Len(invoices'), NEW j \in 1..Len(invoices'),
                        invoices'[i].series = invoices'[j].series,
                        invoices'[i].number = invoices'[j].number
                 PROVE  i = j
      BY DEF InvoiceNumbersUnique
    <3>2. CASE i \in 1..Len(invoices) /\ j \in 1..Len(invoices)
      BY <3>2, <2>4 DEF SeriesInv, SeriesContinuous, InvoiceNumbersUnique
    <3>3. CASE i = Len(invoices) + 1 /\ j \in 1..Len(invoices)
      BY <3>1, <3>3, <2>2, <2>4
    <3>4. CASE j = Len(invoices) + 1 /\ i \in 1..Len(invoices)
      BY <3>1, <3>4, <2>2, <2>4
    <3>5. CASE i = Len(invoices) + 1 /\ j = Len(invoices) + 1
      BY <3>5
    <3> QED
      BY <3>2, <3>3, <3>4, <3>5, <2>3, <2>4
  <2>9. NoteSeriesGapFree'
    <3>1. /\ counters'["CN"] = counters["CN"]
          /\ counters'["RET"] = counters["RET"]
      BY <2>1, <2>5 DEF Series
    <3>2. Len(notes') = Len(notes) /\ \A n \in 1..Len(notes) : notes'[n].number = notes[n].number
      <4>1. CASE q.note = 0
        BY <1>1, <4>1 DEF CommitInvoice
      <4>2. CASE q.note # 0
        BY <1>1, <4>2 DEF CommitInvoice, Redeem, TypeOK, CreditNote
      <4> QED
        BY <4>1, <4>2
    <3> QED
      BY <3>1, <3>2 DEF SeriesInv, SeriesContinuous, NoteSeriesGapFree
  <2> QED
    BY <2>6, <2>7, <2>8, <2>9 DEF SeriesInv, SeriesContinuous
<1>2. ASSUME NEW f \in ReturnForms, NEW m \in RefundModes, NEW c \in Customers,
             PostReturn(f, m, c),
             Len(invoices') = Len(invoices),
             \A i \in 1..Len(invoices) : /\ invoices'[i].series = invoices[i].series
                                         /\ invoices'[i].number = invoices[i].number
      PROVE  SeriesInv'
  <2>1. /\ counters'["INV"] = counters["INV"]
        /\ counters'["EST"] = counters["EST"]
        /\ counters'["CN"] = counters["CN"] + 1
        /\ counters'["RET"] = counters["RET"] + 1
    BY <1>2 DEF PostReturn, TypeOK, Series
  <2>2. /\ Len(notes') = Len(notes) + 1
        /\ Len(notes) \in Nat
        /\ \A n \in 1..Len(notes) : notes'[n] = notes[n]
        /\ notes'[Len(notes) + 1] = NewNote(f, m, c)
    BY <1>2 DEF PostReturn, TypeOK
  <2>3. NewNote(f, m, c).number = Len(notes) + 1
    BY DEF NewNote, NextSeq, SeriesInv, SeriesContinuous, NoteSeriesGapFree
  <2>4. NoteSeriesGapFree'
    <3> SUFFICES ASSUME NEW n \in 1..Len(notes')
                 PROVE  notes'[n].number = n
      BY <2>1, <2>2 DEF SeriesInv, SeriesContinuous, NoteSeriesGapFree
    <3>1. CASE n \in 1..Len(notes)
      BY <3>1, <2>2 DEF SeriesInv, SeriesContinuous, NoteSeriesGapFree
    <3>2. CASE n = Len(notes) + 1
      BY <3>2, <2>2, <2>3
    <3> QED
      BY <3>1, <3>2, <2>2
  <2>5. \A i \in 1..Len(invoices) : invoices[i].series \in {"INV", "EST"}
    BY InvoiceRows
  <2>6. NumbersIssued'
    BY <1>2, <2>1, <2>5 DEF SeriesInv, NumbersIssued
  <2>7. InvoiceNumbersUnique'
    BY <1>2 DEF SeriesInv, SeriesContinuous, InvoiceNumbersUnique
  <2>8. InvoiceSeriesGapFree'
    BY <1>2, <2>1 DEF SeriesInv, SeriesContinuous, InvoiceSeriesGapFree
  <2> QED
    BY <2>4, <2>6, <2>7, <2>8 DEF SeriesInv, SeriesContinuous
<1>3. ASSUME UNCHANGED <<counters, notes>>,
             Len(invoices') = Len(invoices),
             \A i \in 1..Len(invoices) : /\ invoices'[i].series = invoices[i].series
                                         /\ invoices'[i].number = invoices[i].number
      PROVE  SeriesInv'
  <2>1. NumbersIssued'
    BY <1>3 DEF SeriesInv, NumbersIssued
  <2>2. InvoiceSeriesGapFree'
    BY <1>3 DEF SeriesInv, SeriesContinuous, InvoiceSeriesGapFree
  <2>3. InvoiceNumbersUnique'
    BY <1>3 DEF SeriesInv, SeriesContinuous, InvoiceNumbersUnique
  <2>4. NoteSeriesGapFree'
    BY <1>3 DEF SeriesInv, SeriesContinuous, NoteSeriesGapFree
  <2> QED
    BY <2>1, <2>2, <2>3, <2>4 DEF SeriesInv, SeriesContinuous
<1>4. CASE BillingNext
  <2>1. ASSUME NEW i \in 1..Len(invoices), ConvertEstimate(i)
        PROVE  SeriesInv'
    <3>1. /\ Len(invoices') = Len(invoices)
          /\ \A j \in 1..Len(invoices) : /\ invoices'[j].series = invoices[j].series
                                          /\ invoices'[j].number = invoices[j].number
      BY <2>1, InvoiceUpdates DEF SameSale
    <3> QED
      BY <2>1, <3>1, <1>3 DEF ConvertEstimate
  <2>2. ASSUME NEW r \in Reqs, SubmitInvoice(r)
        PROVE  SeriesInv'
    BY <2>2, <1>3 DEF SubmitInvoice, tables
  <2> QED
    BY <1>1, <1>4, <2>1, <2>2 DEF BillingNext
<1>5. CASE ReturnsNext
  <2>1. ASSUME NEW r \in Reqs, CommitReturn(r)
        PROVE  SeriesInv'
    <3>1. /\ Len(invoices') = Len(invoices)
          /\ \A j \in 1..Len(invoices) : /\ invoices'[j].series = invoices[j].series
                                          /\ invoices'[j].number = invoices[j].number
      <4>1. req[r].invoice \in 1..Len(invoices)
        BY <2>1, ReturnRequest DEF CommitReturn
      <4> QED
        BY <2>1, <4>1, InvoiceUpdates DEF SameSale
    <3> QED
      BY <2>1, <3>1, <1>2, ReturnRequest DEF CommitReturn
  <2>2. ASSUME NEW f \in WalkInForms, NEW m \in RefundModes, NEW c \in Customers,
               WalkInReturn(f, m, c)
        PROVE  SeriesInv'
    BY <2>2, <1>2, ReturnsAssumption DEF WalkInReturn
  <2>3. ASSUME NEW r \in Reqs, BeginReturn(r) \/ RetryReturn(r)
        PROVE  SeriesInv'
    BY <2>3, <1>3 DEF BeginReturn, RetryReturn, tables
  <2> QED
    BY <1>5, <2>1, <2>2, <2>3 DEF ReturnsNext
<1>6. CASE (\E r \in Reqs : Rollback(r)) \/ UNCHANGED vars
  BY <1>3, <1>6 DEF Rollback, vars, tables
<1> QED
  BY <1>4, <1>5, <1>6 DEF Next

(* On every behaviour the invoice, estimate and credit-note series have no *)
(* gap and no repeat, whatever rolls back (billing.js lines 260-271,       *)
(* sequence.js nextSeq).                                                   *)
THEOREM SeriesAreContinuous == Spec => []SeriesContinuous
<1>1. Init => SeriesInv
  BY DEF Init, TablesInit, SeriesInv, SeriesContinuous, NumbersIssued, Series,
         InvoiceSeriesGapFree, InvoiceNumbersUnique, NoteSeriesGapFree
<1>2. TypeOK /\ SeriesInv /\ [Next]_vars => SeriesInv'
  BY SeriesStep
<1>3. SeriesInv => SeriesContinuous
  BY DEF SeriesInv
<1> QED
  BY <1>1, <1>2, <1>3, TypeCorrect, PTL DEF Spec

-----------------------------------------------------------------------------
(* Returns.  A request that names every line of the invoice at most once;  *)
(* for one that does not, the theorem below is false.                      *)
OneLinePerPart ==
    \A f \in ReturnForms, p \in Parts : f.good[p] = 0 \/ f.bad[p] = 0

(* A return in flight fits what its own snapshot left returnable.          *)
PendingReturnable ==
    \A r \in Reqs : req[r].op = "return" =>
        Returnable(invoices[req[r].invoice].cart, req[r].seen, req[r].form)

ReturnInv == ReturnedWithinSold /\ PendingReturnable

LEMMA ReturnStep ==
    ASSUME OneLinePerPart, TypeOK, ReturnInv, [Next]_vars
    PROVE  ReturnInv'
<1>1. ASSUME Len(invoices) <= Len(invoices'), Len(invoices') \in Nat,
             \A i \in 1..Len(invoices) : invoices'[i].cart = invoices[i].cart,
             \A r \in Reqs : \/ req'[r] = req[r]
                             \/ req'[r].op = "return" =>
                                  Returnable(invoices'[req'[r].invoice].cart,
                                             req'[r].seen, req'[r].form)
      PROVE  PendingReturnable'
  <2> SUFFICES ASSUME NEW r \in Reqs, req'[r].op = "return"
               PROVE  Returnable(invoices'[req'[r].invoice].cart, req'[r].seen, req'[r].form)
    BY DEF PendingReturnable, Returnable
  <2>1. CASE req'[r] = req[r]
    <3>1. req[r].op = "return" /\ req[r].invoice \in 1..Len(invoices)
      BY <2>1 DEF TypeOK
    <3> QED
      BY <1>1, <2>1, <3>1 DEF ReturnInv, PendingReturnable
  <2> QED
    BY <1>1, <2>1
<1>2. ASSUME Len(invoices') = Len(invoices),
             \A i \in 1..Len(invoices) : /\ invoices'[i].cart = invoices[i].cart
                                         /\ invoices'[i].returned = invoices[i].returned
      PROVE  ReturnedWithinSold'
  BY <1>2 DEF ReturnInv, ReturnedWithinSold, Covers
<1>3. ASSUME UNCHANGED invoices
      PROVE  /\ Len(invoices') = Len(invoices)
             /\ Len(invoices') \in Nat
             /\ \A i \in 1..Len(invoices) : /\ invoices'[i].cart = invoices[i].cart
                                            /\ invoices'[i].returned = invoices[i].returned
  BY <1>3 DEF TypeOK
<1>4. ASSUME NEW r \in Reqs, SubmitInvoice(r)
      PROVE  ReturnInv'
  <2>1. PICK q \in InvoiceReq : req' = [req EXCEPT ![r] = q]
    BY <1>4 DEF SubmitInvoice
  <2>2. q.op = "invoice"
    BY DEF InvoiceReq
  <2>3. \A s \in Reqs : req'[s] = req[s] \/ req'[s].op = "invoice"
    BY <2>1, <2>2 DEF TypeOK
  <2>4. UNCHANGED invoices
    BY <1>4 DEF SubmitInvoice, tables
  <2> QED
    BY <2>3, <2>4, <1>1, <1>2, <1>3 DEF ReturnInv
<1>5. ASSUME NEW r \in Reqs, CommitInvoice(r)
      PROVE  ReturnInv'
  <2>1. /\ Len(invoices') = Len(invoices) + 1
        /\ Len(invoices) \in Nat
        /\ \A i \in 1..Len(invoices) : invoices'[i] = invoices[i]
        /\ invoices'[Len(invoices) + 1] = NewInvoice(req[r])
    BY <1>5 DEF CommitInvoice, TypeOK
  <2>2. NewInvoice(req[r]).returned = Nothing /\ NewInvoice(req[r]).cart \in Quantities
    <3>1. req[r] \in InvoiceReq
      BY <1>5, RequestKind DEF CommitInvoice
    <3>2. req[r].cart \in Quantities
      BY <3>1, ShopAssumption DEF InvoiceReq
    <3> QED
      BY <3>2 DEF NewInvoice
  <2>3. \A p \in Parts : Nothing[p] = 0 /\ NewInvoice(req[r]).cart[p] >= 0
    BY <2>2 DEF Nothing, Quantities
  <2>4. Covers(NewInvoice(req[r]).cart, NewInvoice(req[r]).returned)
    BY <2>2, <2>3 DEF Covers
  <2>5. ReturnedWithinSold'
    <3> SUFFICES ASSUME NEW i \in 1..Len(invoices')
                 PROVE  Covers(invoices'[i].cart, invoices'[i].returned)
      BY DEF ReturnedWithinSold, Covers
    <3>1. CASE i = Len(invoices) + 1
      BY <3>1, <2>1, <2>4
    <3>2. CASE i \in 1..Len(invoices)
      BY <3>2, <2>1 DEF ReturnInv, ReturnedWithinSold
    <3> QED
      BY <3>1, <3>2, <2>1
  <2>6. \A s \in Reqs : req'[s] = req[s] \/ req'[s].op = "idle"
    BY <1>5 DEF CommitInvoice, Idle, TypeOK
  <2>7. PendingReturnable'
    BY <2>1, <2>6, <1>1
  <2> QED
    BY <2>5, <2>7 DEF ReturnInv
<1>6. ASSUME NEW i \in 1..Len(invoices), ConvertEstimate(i)
      PROVE  ReturnInv'
  <2>1. invoices'[i].returned = invoices[i].returned
    <3>1. invoices[i] \in Invoice
      BY InvoiceRows
    <3>2. [invoices[i] EXCEPT !.status = "CONVERTED"].returned = invoices[i].returned
      BY <3>1 DEF Invoice
    <3> DEFINE row == [invoices[i] EXCEPT !.status = "CONVERTED"]
    <3>3. invoices' = [invoices EXCEPT ![i] = row]
      BY <1>6 DEF ConvertEstimate
    <3>4. row.returned = invoices[i].returned
      BY <3>2
    <3> HIDE DEF row
    <3>5. invoices'[i] = row
      BY <3>3 DEF TypeOK
    <3> QED
      BY <3>4, <3>5
  <2>2. /\ Len(invoices') = Len(invoices)
        /\ Len(invoices') \in Nat
        /\ \A j \in 1..Len(invoices) : /\ invoices'[j].cart = invoices[j].cart
                                        /\ invoices'[j].returned = invoices[j].returned
    BY <1>6, <2>1, InvoiceUpdates, InvoiceRows DEF SameSale
  <2>3. UNCHANGED req
    BY <1>6 DEF ConvertEstimate
  <2> QED
    BY <2>2, <2>3, <1>1, <1>2 DEF ReturnInv
<1>7. ASSUME NEW r \in Reqs, BeginReturn(r)
      PROVE  ReturnInv'
  <2>1. PICK i \in 1..Len(invoices), f \in ReturnForms, m \in RefundModes :
          /\ Returnable(invoices[i].cart, invoices[i].returned, f)
          /\ req' = [req EXCEPT ![r] =
                        [op |-> "return", invoice |-> i, form |-> f, mode |-> m,
                         seen |-> invoices[i].returned, attempt |-> 1]]
    BY <1>7 DEF BeginReturn
  <2>2. UNCHANGED invoices
    BY <1>7 DEF BeginReturn, tables
  <2>3. \A s \in Reqs : \/ req'[s] = req[s]
                        \/ Returnable(invoices'[req'[s].invoice].cart,
                                      req'[s].seen, req'[s].form)
    BY <2>1, <2>2 DEF TypeOK
  <2> QED
    BY <2>2, <2>3, <1>1, <1>2, <1>3 DEF ReturnInv
<1>8. ASSUME NEW r \in Reqs, RetryReturn(r)
      PROVE  ReturnInv'
  <2>1. /\ req[r] \in ReturnReq
        /\ Returnable(invoices[req[r].invoice].cart,
                      invoices[req[r].invoice].returned, req[r].form)
    BY <1>8, RequestKind DEF RetryReturn
  <2> DEFINE q == [req[r] EXCEPT !.seen = invoices[req[r].invoice].returned,
                                 !.attempt = 2]
  <2>2. /\ q.invoice = req[r].invoice
        /\ q.form = req[r].form
        /\ q.seen = invoices[req[r].invoice].returned
    BY <2>1 DEF ReturnReq
  <2>3. req' = [req EXCEPT ![r] = q] /\ UNCHANGED invoices
    BY <1>8 DEF RetryReturn, tables, TypeOK
  <2> HIDE DEF q
  <2>4. \A s \in Reqs : \/ req'[s] = req[s]
                        \/ Returnable(invoices'[req'[s].invoice].cart,
                                      req'[s].seen, req'[s].form)
    BY <2>1, <2>2, <2>3 DEF TypeOK
  <2> QED
    BY <2>3, <2>4, <1>1, <1>2, <1>3 DEF ReturnInv
<1>9. ASSUME NEW r \in Reqs, CommitReturn(r)
      PROVE  ReturnInv'
  <2> DEFINE q == req[r]
             i == q.invoice
  <2>1. /\ i \in 1..Len(invoices)
        /\ invoices[i] \in Invoice
        /\ invoices[i].returned \in Quantities
        /\ invoices[i].cart \in Quantities
        /\ q.form \in ReturnForms
        /\ q.form.good \in Quantities
        /\ q.form.bad \in Quantities
    BY <1>9, ReturnRequest, InvoiceRows DEF CommitReturn
  <2>2. Returnable(invoices[i].cart, invoices[i].returned, q.form)
    BY <1>9 DEF CommitReturn, SnapshotCurrent, ReturnInv, PendingReturnable
  <2>3. Covers(invoices[i].cart, Plus(invoices[i].returned, AllUnits(q.form)))
    <3> SUFFICES ASSUME NEW p \in Parts
                 PROVE  Plus(invoices[i].returned, AllUnits(q.form))[p] <= invoices[i].cart[p]
      BY DEF Covers
    <3>1. /\ q.form.good[p] \in Nat
          /\ q.form.bad[p] \in Nat
          /\ invoices[i].returned[p] \in Nat
          /\ invoices[i].cart[p] \in Nat
      BY <2>1 DEF Quantities
    <3>2. q.form.good[p] = 0 \/ q.form.bad[p] = 0
      BY <2>1 DEF OneLinePerPart
    <3>3. /\ q.form.good[p] <= invoices[i].cart[p] - invoices[i].returned[p]
          /\ q.form.bad[p] <= invoices[i].cart[p] - invoices[i].returned[p]
      BY <2>2 DEF Returnable
    <3>4. Plus(invoices[i].returned, AllUnits(q.form))[p]
            = invoices[i].returned[p] + (q.form.good[p] + q.form.bad[p])
      BY DEF Plus, AllUnits
    <3> QED
      BY <3>1, <3>2, <3>3, <3>4
  <2>4. /\ Len(invoices') = Len(invoices)
        /\ \A j \in 1..Len(invoices) :
             /\ invoices'[j].cart = invoices[j].cart
             /\ j # i => invoices'[j].returned = invoices[j].returned
    BY <1>9, <2>1, InvoiceUpdates DEF SameSale
  <2>5. invoices'[i].returned = Plus(invoices[i].returned, AllUnits(q.form))
    <3> DEFINE u == Plus(invoices[i].returned, AllUnits(q.form))
               row == [invoices[i] EXCEPT !.returned = u]
    <3>1. invoices' = [invoices EXCEPT ![i] = row]
      BY <1>9 DEF CommitReturn
    <3>2. row.returned = u
      <4> HIDE DEF u
      <4> QED
        BY <2>1 DEF Invoice
    <3> HIDE DEF row
    <3>3. invoices'[i] = row
      BY <2>1, <3>1 DEF TypeOK
    <3> QED
      BY <3>2, <3>3
  <2>6. ReturnedWithinSold'
    <3> SUFFICES ASSUME NEW j \in 1..Len(invoices')
                 PROVE  Covers(invoices'[j].cart, invoices'[j].returned)
      BY DEF ReturnedWithinSold, Covers
    <3>1. CASE j = i
      BY <3>1, <2>1, <2>3, <2>4, <2>5
    <3>2. CASE j # i
      BY <3>2, <2>4 DEF ReturnInv, ReturnedWithinSold
    <3> QED
      BY <3>1, <3>2
  <2>7. \A s \in Reqs : req'[s] = req[s] \/ req'[s].op = "idle"
    BY <1>9 DEF CommitReturn, Idle, TypeOK
  <2>8. PendingReturnable'
    BY <2>4, <2>7, <1>1, InvoiceRows
  <2> QED
    BY <2>6, <2>8 DEF ReturnInv
<1>10. ASSUME NEW r \in Reqs, Rollback(r)
       PROVE  ReturnInv'
  <2>1. \A s \in Reqs : req'[s] = req[s] \/ req'[s].op = "idle"
    BY <1>10 DEF Rollback, Idle, TypeOK
  <2>2. UNCHANGED invoices
    BY <1>10 DEF Rollback, tables
  <2> QED
    BY <2>1, <2>2, <1>1, <1>2, <1>3 DEF ReturnInv
<1>11. ASSUME UNCHANGED <<invoices, req>>
       PROVE  ReturnInv'
  BY <1>11, <1>1, <1>2, <1>3 DEF ReturnInv
<1>12. CASE BillingNext
  BY <1>4, <1>5, <1>6, <1>12 DEF BillingNext
<1>13. CASE ReturnsNext
  BY <1>7, <1>8, <1>9, <1>11, <1>13 DEF ReturnsNext, WalkInReturn
<1> QED
  BY <1>10, <1>11, <1>12, <1>13 DEF Next, vars, tables

(* However many returns race on one invoice, no more of a line comes back  *)
(* than was sold, as long as no request names a line twice: the sum read   *)
(* in the snapshot is still the sum when the return commits                *)
(* (serializable-tx.js, salesReturns.js lines 162-182).                    *)
THEOREM NoOverReturn == OneLinePerPart => (Spec => []ReturnedWithinSold)
<1> SUFFICES ASSUME OneLinePerPart PROVE Spec => []ReturnedWithinSold
  OBVIOUS
<1>1. Init => ReturnInv
  BY DEF Init, TablesInit, ReturnInv, ReturnedWithinSold, PendingReturnable, Idle
<1>2. TypeOK /\ ReturnInv /\ [Next]_vars => ReturnInv'
  BY ReturnStep
<1>3. ReturnInv => ReturnedWithinSold
  BY DEF ReturnInv
<1> QED
  BY <1>1, <1>2, <1>3, TypeCorrect, PTL DEF Spec

-----------------------------------------------------------------------------
(* Credit notes.  A note paid out in cash has a balance of zero, so that   *)
(* it cannot be spent as well rests on no request applying nothing to it.  *)
SpendsSomething ==
    \A r \in Reqs : req[r].op = "invoice" /\ req[r].note # 0 => req[r].applied > 0

NoteInv == NoteBalanceCoherent /\ SpendsSomething

Coherent(note) ==
    /\ note.remaining <= note.total
    /\ note.status = "REFUNDED" => note.remaining = 0
    /\ note.status = "FULLY_USED" => note.remaining <= Cent
    /\ note.status = "UNUSED" => note.remaining = note.total
    /\ note.status = "PARTIALLY_USED" => note.remaining > Cent

(* One redemption, on a note that is coherent before it.                   *)
LEMMA RedeemNote ==
    ASSUME NEW note \in CreditNote, NEW a \in Nat,
           Coherent(note), a > 0, a <= note.remaining
    PROVE  /\ Coherent(Redeem(note, a))
           /\ Redeem(note, a).remaining <= note.remaining
           /\ note.status # "REFUNDED"
<1>1. note.remaining \in Nat /\ note.total \in Nat
  BY DEF CreditNote
<1>2. /\ Redeem(note, a).remaining = note.remaining - a
      /\ Redeem(note, a).total = note.total
      /\ Redeem(note, a).status = IF note.remaining - a <= Cent
                                  THEN "FULLY_USED" ELSE "PARTIALLY_USED"
  BY DEF Redeem, CreditNote
<1> QED
  BY <1>1, <1>2, ShopAssumption DEF Coherent

LEMMA RedeemStep ==
    ASSUME TypeOK, NoteInv, NEW r \in Reqs, CommitInvoice(r), req[r].note # 0
    PROVE  LET n == req[r].note
               note == notes[n]
           IN  /\ n \in 1..Len(notes)
               /\ notes' = [notes EXCEPT ![n] = Redeem(note, req[r].applied)]
               /\ Coherent(Redeem(note, req[r].applied))
               /\ Redeem(note, req[r].applied).remaining <= note.remaining
               /\ note.status # "REFUNDED"
<1> DEFINE n == req[r].note
           a == req[r].applied
<1>1. req[r] \in InvoiceReq /\ n <= Len(notes)
  BY RequestKind DEF CommitInvoice, TypeOK
<1>2. n \in 0..MaxNotes /\ a \in AppliedAmounts
  BY <1>1 DEF InvoiceReq
<1>3. n \in 1..Len(notes) /\ a \in Nat
  <2>1. a \in Nat
    BY <1>2, BillingAssumption
  <2>2. n \in Nat /\ n # 0 /\ Len(notes) \in Nat
    BY <1>2 DEF TypeOK
  <2> QED
    BY <1>1, <2>1, <2>2
<1>4. notes[n] \in CreditNote
  BY <1>3 DEF TypeOK
<1>5. Coherent(notes[n])
  BY <1>3 DEF NoteInv, NoteBalanceCoherent, Coherent
<1>6. a > 0 /\ a <= notes[n].remaining
  <2>1. a > 0
    BY DEF NoteInv, SpendsSomething, CommitInvoice
  <2>2. notes[n].remaining \in Nat
    BY <1>4 DEF CreditNote
  <2>3. notes[n].remaining >= a
    BY DEF CommitInvoice, NoteGuard
  <2> QED
    BY <1>3, <2>1, <2>2, <2>3
<1>7. notes' = [notes EXCEPT ![n] = Redeem(notes[n], a)]
  BY DEF CommitInvoice
<1> QED
  BY <1>3, <1>4, <1>5, <1>6, <1>7, RedeemNote

LEMMA NewNoteCoherent ==
    ASSUME TypeOK, NEW f \in ReturnForms, NEW m \in RefundModes, NEW c \in Customers,
           PostReturn(f, m, c)
    PROVE  /\ Len(notes') = Len(notes) + 1
           /\ Len(notes) \in Nat
           /\ \A n \in 1..Len(notes) : notes'[n] = notes[n]
           /\ Coherent(notes'[Len(notes) + 1])
<1>1. /\ Len(notes') = Len(notes) + 1
      /\ Len(notes) \in Nat
      /\ \A n \in 1..Len(notes) : notes'[n] = notes[n]
      /\ notes'[Len(notes) + 1] = NewNote(f, m, c)
  BY DEF PostReturn, TypeOK
<1>2. ReturnTotal[f] \in Nat
  BY ReturnsAssumption
<1>3. Coherent(NewNote(f, m, c))
  BY <1>2 DEF Coherent, NewNote, StoreCredit
<1> QED
  BY <1>1, <1>3

(* What each step does to the notes: all but a redemption and a return     *)
(* leave them alone.                                                       *)
LEMMA NotesStep ==
    ASSUME TypeOK, NoteInv, [Next]_vars
    PROVE  \/ UNCHANGED notes
           \/ \E r \in Reqs : CommitInvoice(r) /\ req[r].note # 0
           \/ \E f \in ReturnForms, m \in RefundModes, c \in Customers :
                 PostReturn(f, m, c)
<1>1. ASSUME NEW r \in Reqs, CommitReturn(r)
      PROVE  \E f \in ReturnForms, m \in RefundModes, c \in Customers :
                 PostReturn(f, m, c)
  BY <1>1, ReturnRequest DEF CommitReturn
<1>2. ASSUME NEW f \in WalkInForms, NEW m \in RefundModes, NEW c \in Customers,
             WalkInReturn(f, m, c)
      PROVE  f \in ReturnForms /\ PostReturn(f, m, c)
  BY <1>2, ReturnsAssumption DEF WalkInReturn
<1>3. ASSUME NEW r \in Reqs, CommitInvoice(r), req[r].note = 0
      PROVE  UNCHANGED notes
  BY <1>3 DEF CommitInvoice
<1>4. CASE BillingNext
  BY <1>3, <1>4 DEF BillingNext, SubmitInvoice, ConvertEstimate, tables
<1>5. CASE ReturnsNext
  BY <1>1, <1>2, <1>5 DEF ReturnsNext, BeginReturn, RetryReturn, tables
<1>6. CASE (\E r \in Reqs : Rollback(r)) \/ UNCHANGED vars
  BY <1>6 DEF Rollback, vars, tables
<1> QED
  BY <1>4, <1>5, <1>6 DEF Next

LEMMA NoteStep ==
    ASSUME TypeOK, NoteInv, [Next]_vars
    PROVE  NoteInv'
<1>1. NoteBalanceCoherent'
  <2> SUFFICES ASSUME NEW n \in 1..Len(notes')
               PROVE  Coherent(notes'[n])
    BY DEF NoteBalanceCoherent, Coherent
  <2>1. \A k \in 1..Len(notes) : Coherent(notes[k])
    BY DEF NoteInv, NoteBalanceCoherent, Coherent
  <2>2. CASE UNCHANGED notes
    BY <2>1, <2>2
  <2>3. ASSUME NEW r \in Reqs, CommitInvoice(r), req[r].note # 0
        PROVE  Coherent(notes'[n])
    <3> DEFINE k == req[r].note
               row == Redeem(notes[k], req[r].applied)
    <3>1. k \in 1..Len(notes) /\ notes' = [notes EXCEPT ![k] = row] /\ Coherent(row)
      BY <2>3, RedeemStep
    <3> HIDE DEF row
    <3>2. /\ n \in 1..Len(notes)
          /\ notes'[n] = IF n = k THEN row ELSE notes[n]
      BY <3>1 DEF TypeOK
    <3> QED
      BY <2>1, <3>1, <3>2
  <2>4. ASSUME NEW f \in ReturnForms, NEW m \in RefundModes, NEW c \in Customers,
               PostReturn(f, m, c)
        PROVE  Coherent(notes'[n])
    BY <2>1, <2>4, NewNoteCoherent
  <2> QED
    BY <2>2, <2>3, <2>4, NotesStep
<1>2. SpendsSomething'
  <2>1. ASSUME \A s \in Reqs : req'[s] = req[s] \/ req'[s].op # "invoice"
        PROVE  SpendsSomething'
    BY <2>1 DEF SpendsSomething, NoteInv
  <2>2. ASSUME NEW r \in Reqs, SubmitInvoice(r)
        PROVE  SpendsSomething'
    <3>1. PICK q \in InvoiceReq : /\ q.note # 0 => q.applied > 0
                                  /\ req' = [req EXCEPT ![r] = q]
      BY <2>2 DEF SubmitInvoice, PreflightNote
    <3> QED
      BY <3>1 DEF SpendsSomething, NoteInv, TypeOK
  <2>3. ASSUME NEW r \in Reqs, CommitInvoice(r) \/ CommitReturn(r) \/ Rollback(r)
        PROVE  SpendsSomething'
    BY <2>1, <2>3 DEF CommitInvoice, CommitReturn, Rollback, Idle, TypeOK
  <2>4. ASSUME NEW r \in Reqs, BeginReturn(r)
        PROVE  SpendsSomething'
    <3>1. PICK q : q.op = "return" /\ req' = [req EXCEPT ![r] = q]
      BY <2>4 DEF BeginReturn
    <3> QED
      BY <2>1, <3>1 DEF TypeOK
  <2>5. ASSUME NEW r \in Reqs, RetryReturn(r)
        PROVE  SpendsSomething'
    <3>1. req[r] \in ReturnReq
      BY <2>5, RequestKind DEF RetryReturn
    <3>2. PICK q : q.op = "return" /\ req' = [req EXCEPT ![r] = q]
      BY <2>5, <3>1 DEF RetryReturn, ReturnReq, TypeOK
    <3> QED
      BY <2>1, <3>2 DEF TypeOK
  <2>6. ASSUME UNCHANGED req
        PROVE  SpendsSomething'
    BY <2>1, <2>6
  <2>7. CASE BillingNext
    BY <2>2, <2>3, <2>6, <2>7 DEF BillingNext, ConvertEstimate
  <2>8. CASE ReturnsNext
    BY <2>3, <2>4, <2>5, <2>6, <2>8 DEF ReturnsNext, WalkInReturn
  <2> QED
    BY <2>3, <2>6, <2>7, <2>8 DEF Next, vars
<1> QED
  BY <1>1, <1>2 DEF NoteInv

LEMMA NoteInvariant == Spec => []NoteInv
<1>1. Init => NoteInv
  BY DEF Init, TablesInit, NoteInv, NoteBalanceCoherent, SpendsSomething, Idle
<1>2. TypeOK /\ NoteInv /\ [Next]_vars => NoteInv'
  BY NoteStep
<1> QED
  BY <1>1, <1>2, TypeCorrect, PTL DEF Spec

(* The balance and the status of every credit note agree on every          *)
(* behaviour, however many sales race to redeem it (billing.js lines       *)
(* 486-500).                                                               *)
THEOREM NotesCoherent == Spec => []NoteBalanceCoherent
<1>1. NoteInv => NoteBalanceCoherent
  BY DEF NoteInv
<1> QED
  BY <1>1, NoteInvariant, PTL

(* No step ever gives a note its balance back, or spends a note that was   *)
(* refunded in cash (billing.js lines 228-237 and 486-500).                *)
THEOREM NotesNeverRefilled == Spec => NotesOnlySpent
<1>1. TypeOK /\ NoteInv /\ [Next]_vars =>
        [\A n \in 1..Len(notes) :
            /\ notes'[n].remaining <= notes[n].remaining
            /\ notes[n].status = "REFUNDED" => notes'[n] = notes[n]]_vars
  <2> SUFFICES ASSUME TypeOK, NoteInv, [Next]_vars, NEW n \in 1..Len(notes)
               PROVE  /\ notes'[n].remaining <= notes[n].remaining
                      /\ notes[n].status = "REFUNDED" => notes'[n] = notes[n]
    OBVIOUS
  <2>1. notes[n] \in CreditNote
    BY DEF TypeOK
  <2>2. notes[n].remaining <= notes[n].remaining
    BY <2>1 DEF CreditNote
  <2>3. CASE UNCHANGED notes
    BY <2>2, <2>3
  <2>4. ASSUME NEW r \in Reqs, CommitInvoice(r), req[r].note # 0
        PROVE  /\ notes'[n].remaining <= notes[n].remaining
               /\ notes[n].status = "REFUNDED" => notes'[n] = notes[n]
    BY <2>2, <2>4, RedeemStep DEF TypeOK
  <2>5. ASSUME NEW f \in ReturnForms, NEW m \in RefundModes, NEW c \in Customers,
               PostReturn(f, m, c)
        PROVE  /\ notes'[n].remaining <= notes[n].remaining
               /\ notes[n].status = "REFUNDED" => notes'[n] = notes[n]
    BY <2>2, <2>5, NewNoteCoherent
  <2> QED
    BY <2>3, <2>4, <2>5, NotesStep
<1> QED
  BY <1>1, NoteInvariant, TypeCorrect, PTL DEF Spec, NotesOnlySpent

-----------------------------------------------------------------------------
(* The accounts: what the documents of the store add up to.                *)
Net(inv, p) == Kept(inv, p) - BroughtIn(inv, p)
Debits(rows, party) == [i \in 1..Len(rows) |-> Debited(rows[i], party)]
Credits(rows, party) == [n \in 1..Len(rows) |-> Credited(rows[n], party)]
NetOf(rows, p) == [i \in 1..Len(rows) |-> Net(rows[i], p)]
ReturnedOf(rows, p) == [i \in 1..Len(rows) |-> rows[i].returned[p]]

LEMMA InvoiceAccounts ==
    ASSUME NEW rows \in Seq(Invoice)
    PROVE  /\ \A party \in Parties : Debits(rows, party) \in [1..Len(rows) -> Int]
           /\ \A p \in Parts : /\ NetOf(rows, p) \in [1..Len(rows) -> Int]
                               /\ ReturnedOf(rows, p) \in [1..Len(rows) -> Int]
<1>1. ASSUME NEW i \in 1..Len(rows)
      PROVE  /\ \A party \in Parties : Debited(rows[i], party) \in Int
             /\ \A p \in Parts : Net(rows[i], p) \in Int /\ rows[i].returned[p] \in Int
  <2>1. rows[i] \in Invoice
    OBVIOUS
  <2>2. /\ rows[i].credit \in Nat /\ rows[i].applied \in Nat
        /\ rows[i].cart \in Quantities /\ rows[i].returned \in Quantities
    BY <2>1, ShopAssumption DEF Invoice
  <2>3. \A p \in Parts : rows[i].cart[p] \in Nat /\ rows[i].returned[p] \in Nat
    BY <2>2 DEF Quantities
  <2> QED
    BY <2>2, <2>3 DEF Debited, Net, Kept, BroughtIn
<1> QED
  BY <1>1 DEF Debits, NetOf, ReturnedOf

LEMMA NoteAccounts ==
    ASSUME NEW rows \in Seq(CreditNote)
    PROVE  \A party \in Parties : Credits(rows, party) \in [1..Len(rows) -> Int]
<1>1. ASSUME NEW n \in 1..Len(rows)
      PROVE  \A party \in Parties : Credited(rows[n], party) \in Int
  <2>1. rows[n] \in CreditNote
    OBVIOUS
  <2> QED
    BY <2>1 DEF CreditNote, Credited
<1> QED
  BY <1>1 DEF Credits

(* A sale that commits adds its row to every sum over the invoices.        *)
LEMMA SaleEntersAccounts ==
    ASSUME TypeOK, TypeOK', NEW r \in Reqs, CommitInvoice(r)
    PROVE  LET new == NewInvoice(req[r])
           IN  /\ \A party \in Parties : SumFunction(Debits(invoices', party)) =
                    SumFunction(Debits(invoices, party)) + Debited(new, party)
               /\ \A p \in Parts :
                    /\ SumFunction(NetOf(invoices', p)) = SumFunction(NetOf(invoices, p)) + Net(new, p)
                    /\ SumFunction(ReturnedOf(invoices', p)) = SumFunction(ReturnedOf(invoices, p))
<1> DEFINE new == NewInvoice(req[r])
           n == Len(invoices)
<1>1. /\ n \in Nat
      /\ Len(invoices') = n + 1
      /\ \A i \in 1..n : invoices'[i] = invoices[i]
      /\ invoices'[n + 1] = new
  BY DEF CommitInvoice, TypeOK
<1>2. new.returned = Nothing
  BY DEF NewInvoice
<1> HIDE DEF new, n
<1>3. ASSUME NEW party \in Parties
      PROVE  SumFunction(Debits(invoices', party)) = SumFunction(Debits(invoices, party)) + Debited(new, party)
  <2>1. /\ Debits(invoices, party) \in [1..n -> Int]
        /\ Debits(invoices', party) \in [1..(n + 1) -> Int]
    BY <1>1, InvoiceAccounts DEF TypeOK, n
  <2>2. /\ \A i \in 1..n : Debits(invoices', party)[i] = Debits(invoices, party)[i]
        /\ Debits(invoices', party)[n + 1] = Debited(new, party)
    BY <1>1 DEF Debits, n
  <2> HIDE DEF Debits
  <2> QED
    BY <1>1, <2>1, <2>2, SumRowAppended
<1>4. ASSUME NEW p \in Parts
      PROVE  /\ SumFunction(NetOf(invoices', p)) = SumFunction(NetOf(invoices, p)) + Net(new, p)
             /\ SumFunction(ReturnedOf(invoices', p)) = SumFunction(ReturnedOf(invoices, p))
  <2>1. /\ NetOf(invoices, p) \in [1..n -> Int] /\ ReturnedOf(invoices, p) \in [1..n -> Int]
        /\ NetOf(invoices', p) \in [1..(n + 1) -> Int] /\ ReturnedOf(invoices', p) \in [1..(n + 1) -> Int]
    BY <1>1, InvoiceAccounts DEF TypeOK, n
  <2>2. /\ \A i \in 1..n : NetOf(invoices', p)[i] = NetOf(invoices, p)[i] /\ ReturnedOf(invoices', p)[i] = ReturnedOf(invoices, p)[i]
        /\ NetOf(invoices', p)[n + 1] = Net(new, p)
        /\ ReturnedOf(invoices', p)[n + 1] = 0
    BY <1>1, <1>2 DEF NetOf, ReturnedOf, Nothing, n
  <2>3. SumFunction(NetOf(invoices', p)) = SumFunction(NetOf(invoices, p)) + Net(new, p)
    BY <1>1, <2>1, <2>2, SumRowAppended
  <2>4. SumFunction(ReturnedOf(invoices', p)) = SumFunction(ReturnedOf(invoices, p)) + 0
    BY <1>1, <2>1, <2>2, SumRowAppended
  <2>5. SumFunction(ReturnedOf(invoices, p)) \in Int
    BY <1>1, <2>1, FS_Interval, SumOfInts
  <2> QED
    BY <2>3, <2>4, <2>5
<1> QED
  BY <1>3, <1>4 DEF new

(* A conversion and a return change no sale: they leave the debits alone,  *)
(* and a return moves units of one invoice from kept to returned.          *)
LEMMA ReturnEntersAccounts ==
    ASSUME TypeOK, TypeOK', NEW r \in Reqs, CommitReturn(r), NEW p \in Parts
    PROVE  LET n == AllUnits(req[r].form)[p]
           IN  /\ SumFunction(NetOf(invoices', p)) = SumFunction(NetOf(invoices, p)) - n
               /\ SumFunction(ReturnedOf(invoices', p)) = SumFunction(ReturnedOf(invoices, p)) + n
<1> DEFINE i == req[r].invoice
           u == AllUnits(req[r].form)
           k == Len(invoices)
<1>1. /\ i \in 1..k /\ k \in Nat
      /\ u \in Quantities /\ invoices[i].returned \in Quantities
      /\ invoices[i].cart \in Quantities
      /\ invoices[i] \in Invoice
  BY ReturnRequest, InvoiceRows, QuantityArithmetic DEF CommitReturn, AllUnits
<1>2. invoices'[i].returned = Plus(invoices[i].returned, u)
  <2> DEFINE row == [invoices[i] EXCEPT !.returned = Plus(invoices[i].returned, u)]
  <2>1. invoices' = [invoices EXCEPT ![i] = row] /\ row.returned = Plus(invoices[i].returned, u)
    BY <1>1 DEF CommitReturn, Invoice
  <2> HIDE DEF row
  <2> QED
    BY <1>1, <2>1 DEF TypeOK
<1>3. /\ Len(invoices') = k
      /\ \A j \in 1..k : /\ SameSale(invoices'[j], invoices[j])
                         /\ j # i => invoices'[j].returned = invoices[j].returned
  BY <1>1, InvoiceUpdates
<1>4. /\ NetOf(invoices, p) \in [1..k -> Int] /\ ReturnedOf(invoices, p) \in [1..k -> Int]
      /\ NetOf(invoices', p) \in [1..k -> Int] /\ ReturnedOf(invoices', p) \in [1..k -> Int]
  BY <1>3, InvoiceAccounts DEF TypeOK
<1>5. u[p] \in Nat /\ invoices[i].returned[p] \in Nat /\ invoices[i].cart[p] \in Nat
  BY <1>1 DEF Quantities
<1>6. invoices'[i].returned[p] = invoices[i].returned[p] + u[p]
  BY <1>2 DEF Plus
<1>7. /\ NetOf(invoices', p)[i] = NetOf(invoices, p)[i] - u[p]
      /\ ReturnedOf(invoices', p)[i] = ReturnedOf(invoices, p)[i] + u[p]
  <2>1. /\ NetOf(invoices, p)[i] = Net(invoices[i], p) /\ NetOf(invoices', p)[i] = Net(invoices'[i], p)
        /\ ReturnedOf(invoices, p)[i] = invoices[i].returned[p]
        /\ ReturnedOf(invoices', p)[i] = invoices'[i].returned[p]
    BY <1>1, <1>3 DEF NetOf, ReturnedOf
  <2>2. invoices'[i].kind = invoices[i].kind /\ invoices'[i].cart = invoices[i].cart
    BY <1>1, <1>3 DEF SameSale
  <2>3. Net(invoices'[i], p) = Net(invoices[i], p) - u[p]
    BY <1>5, <1>6, <2>2 DEF Net, Kept, BroughtIn
  <2> QED
    BY <1>6, <2>1, <2>3
<1>8. \A j \in 1..k : j # i => /\ NetOf(invoices', p)[j] = NetOf(invoices, p)[j]
                               /\ ReturnedOf(invoices', p)[j] = ReturnedOf(invoices, p)[j]
  BY <1>3 DEF NetOf, ReturnedOf, Net, Kept, BroughtIn, SameSale
<1>9. SumFunction(NetOf(invoices, p)) \in Int /\ SumFunction(ReturnedOf(invoices, p)) \in Int
  <2>1. IsFiniteSet(1..k)
    BY <1>1, FS_Interval
  <2> HIDE DEF k
  <2> QED
    BY <1>4, <2>1, SumOfInts
<1>10. NetOf(invoices, p)[i] \in Int /\ ReturnedOf(invoices, p)[i] \in Int
  BY <1>1, <1>4
<1> HIDE DEF i, u, k
<1>11. SumFunction(NetOf(invoices', p)) = SumFunction(NetOf(invoices, p)) - NetOf(invoices, p)[i] + NetOf(invoices', p)[i]
  BY <1>1, <1>4, <1>8, SumRowUpdated
<1>12. SumFunction(ReturnedOf(invoices', p)) =
         SumFunction(ReturnedOf(invoices, p)) - ReturnedOf(invoices, p)[i] + ReturnedOf(invoices', p)[i]
  BY <1>1, <1>4, <1>8, SumRowUpdated
<1>13. /\ SumFunction(NetOf(invoices', p)) = SumFunction(NetOf(invoices, p)) - u[p]
       /\ SumFunction(ReturnedOf(invoices', p)) = SumFunction(ReturnedOf(invoices, p)) + u[p]
  BY <1>5, <1>7, <1>9, <1>10, <1>11, <1>12
<1> QED
  BY <1>13 DEF u

LEMMA SalesStay ==
    ASSUME TypeOK,
           \/ UNCHANGED invoices
           \/ \E i \in 1..Len(invoices) : ConvertEstimate(i)
           \/ \E r \in Reqs : CommitReturn(r),
           NEW party \in Parties
    PROVE  Debits(invoices', party) = Debits(invoices, party)
<1>1. CASE UNCHANGED invoices
  BY <1>1 DEF Debits
<1>2. CASE ~ UNCHANGED invoices
  <2>1. PICK i \in 1..Len(invoices) :
           \/ ConvertEstimate(i)
           \/ \E r \in Reqs : CommitReturn(r) /\ req[r].invoice = i
    BY <1>2, ReturnRequest DEF CommitReturn
  <2>2. /\ Len(invoices') = Len(invoices)
        /\ \A j \in 1..Len(invoices) : SameSale(invoices'[j], invoices[j])
    BY <2>1, InvoiceUpdates
  <2> QED
    BY <2>2 DEF Debits, Debited, SameSale
<1> QED
  BY <1>1, <1>2

LEMMA UnitsStay ==
    ASSUME TypeOK,
           \/ UNCHANGED invoices
           \/ \E i \in 1..Len(invoices) : ConvertEstimate(i),
           NEW p \in Parts
    PROVE  NetOf(invoices', p) = NetOf(invoices, p) /\ ReturnedOf(invoices', p) = ReturnedOf(invoices, p)
<1>1. CASE UNCHANGED invoices
  BY <1>1 DEF NetOf, ReturnedOf
<1>2. ASSUME NEW i \in 1..Len(invoices), ConvertEstimate(i)
      PROVE  NetOf(invoices', p) = NetOf(invoices, p) /\ ReturnedOf(invoices', p) = ReturnedOf(invoices, p)
  <2>1. /\ Len(invoices') = Len(invoices)
        /\ \A j \in 1..Len(invoices) : SameSale(invoices'[j], invoices[j])
    BY <1>2, InvoiceUpdates
  <2>2. \A j \in 1..Len(invoices) : invoices'[j].returned = invoices[j].returned
    <3> DEFINE row == [invoices[i] EXCEPT !.status = "CONVERTED"]
    <3>1. invoices' = [invoices EXCEPT ![i] = row]
      BY <1>2 DEF ConvertEstimate
    <3>2. row.returned = invoices[i].returned
      BY InvoiceRows DEF Invoice
    <3> HIDE DEF row
    <3> QED
      BY <3>1, <3>2 DEF TypeOK
  <2> QED
    BY <2>1, <2>2 DEF NetOf, ReturnedOf, Net, Kept, BroughtIn, SameSale
<1> QED
  BY <1>1, <1>2

(* A return that commits adds its note to what the party was credited; a   *)
(* redemption changes no credit.                                           *)
LEMMA NoteEntersAccounts ==
    ASSUME TypeOK, TypeOK', NEW f \in ReturnForms, NEW m \in RefundModes, NEW c \in Customers,
           PostReturn(f, m, c), NEW party \in Parties
    PROVE  SumFunction(Credits(notes', party)) =
             SumFunction(Credits(notes, party)) + Credited(NewNote(f, m, c), party)
<1> DEFINE n == Len(notes)
           new == NewNote(f, m, c)
<1>1. /\ n \in Nat
      /\ Len(notes') = n + 1
      /\ \A i \in 1..n : notes'[i] = notes[i]
      /\ notes'[n + 1] = new
  BY DEF PostReturn, TypeOK
<1>2. /\ Credits(notes, party) \in [1..n -> Int]
      /\ Credits(notes', party) \in [1..(n + 1) -> Int]
  BY <1>1, NoteAccounts DEF TypeOK
<1> HIDE DEF new
<1>3. /\ \A i \in 1..n : Credits(notes', party)[i] = Credits(notes, party)[i]
      /\ Credits(notes', party)[n + 1] = Credited(new, party)
  BY <1>1 DEF Credits
<1> HIDE DEF n
<1>4. SumFunction(Credits(notes', party)) = SumFunction(Credits(notes, party)) + Credits(notes', party)[n + 1]
  BY <1>1, <1>2, <1>3, SumRowAppended
<1> QED
  BY <1>3, <1>4 DEF new

LEMMA CreditsStay ==
    ASSUME TypeOK, NoteInv, NEW r \in Reqs, CommitInvoice(r), NEW party \in Parties
    PROVE  Credits(notes', party) = Credits(notes, party)
<1>1. CASE req[r].note = 0
  BY <1>1 DEF CommitInvoice, Credits
<1>2. CASE req[r].note # 0
  <2> DEFINE k == req[r].note
             row == Redeem(notes[k], req[r].applied)
  <2>1. /\ k \in 1..Len(notes) /\ notes' = [notes EXCEPT ![k] = row]
        /\ notes[k].status # "REFUNDED"
    BY <1>2, RedeemStep
  <2>2. /\ row.party = notes[k].party /\ row.total = notes[k].total
        /\ row.status # "REFUNDED"
    <3>1. notes[k] \in CreditNote
      BY <2>1 DEF TypeOK
    <3> QED
      BY <3>1 DEF Redeem, CreditNote
  <2> HIDE DEF row, k
  <2>3. /\ Len(notes') = Len(notes)
        /\ \A n \in 1..Len(notes) : Credited(notes'[n], party) = Credited(notes[n], party)
    BY <2>1, <2>2 DEF TypeOK, Credited
  <2> QED
    BY <2>3 DEF Credits
<1> QED
  BY <1>1, <1>2

-----------------------------------------------------------------------------
LEMMA AccountSums ==
    ASSUME TypeOK
    PROVE  /\ \A party \in Parties : /\ SumFunction(Debits(invoices, party)) \in Int
                                     /\ SumFunction(Credits(notes, party)) \in Int
           /\ \A p \in Parts : /\ SumFunction(NetOf(invoices, p)) \in Int
                               /\ SumFunction(ReturnedOf(invoices, p)) \in Int
<1> DEFINE S == 1..Len(invoices)
           T == 1..Len(notes)
<1>1. IsFiniteSet(S) /\ IsFiniteSet(T)
  BY FS_Interval DEF TypeOK
<1>2. /\ \A party \in Parties : /\ Debits(invoices, party) \in [S -> Int]
                               /\ Credits(notes, party) \in [T -> Int]
      /\ \A p \in Parts : /\ NetOf(invoices, p) \in [S -> Int]
                         /\ ReturnedOf(invoices, p) \in [S -> Int]
  BY InvoiceAccounts, NoteAccounts DEF TypeOK
<1> HIDE DEF S, T
<1> QED
  BY <1>1, <1>2, SumOfInts

LEMMA LedgerSums ==
    LedgerMatchesDocuments <=>
        \A party \in Parties :
            outstanding[party] = SumFunction(Debits(invoices, party)) - SumFunction(Credits(notes, party))
BY DEF LedgerMatchesDocuments, DocumentBalance, Debits, Credits

(* A return posts to the ledger what its note credits.                     *)
LEMMA NotePosted ==
    ASSUME TypeOK, TypeOK', LedgerMatchesDocuments,
           NEW f \in ReturnForms, NEW m \in RefundModes, NEW c \in Customers,
           PostReturn(f, m, c),
           \A party \in Parties : Debits(invoices', party) = Debits(invoices, party)
    PROVE  LedgerMatchesDocuments'
<1> SUFFICES ASSUME NEW party \in Parties
             PROVE  outstanding'[party] = SumFunction(Debits(invoices', party))
                                          - SumFunction(Credits(notes', party))
  BY DEF LedgerMatchesDocuments, DocumentBalance, Debits, Credits
<1> DEFINE new == NewNote(f, m, c)
<1>1. outstanding[party] = SumFunction(Debits(invoices, party)) - SumFunction(Credits(notes, party))
  BY LedgerSums
<1>2. SumFunction(Credits(notes', party)) = SumFunction(Credits(notes, party)) + Credited(new, party)
  BY NoteEntersAccounts
<1>3. outstanding'[party] = outstanding[party] - Credited(new, party)
  <2>1. ReturnTotal[f] \in Nat
    BY ReturnsAssumption
  <2>2. new.party = c /\ new.total = ReturnTotal[f] /\ (new.status = "REFUNDED" <=> m = "CASH")
    BY DEF NewNote
  <2>3. Credited(new, party) = IF c = party THEN StoreCredit(m, f) ELSE 0
    BY <2>2 DEF Credited, StoreCredit
  <2>4. outstanding' = WriteLedger(c, 0, StoreCredit(m, f)) /\ StoreCredit(m, f) \in Nat
    BY <2>1 DEF PostReturn, StoreCredit
  <2>5. outstanding'[party] = IF c = party THEN outstanding[party] - StoreCredit(m, f)
                              ELSE outstanding[party]
    BY <2>4, ShopAssumption DEF WriteLedger, TypeOK
  <2>6. outstanding[party] \in Int
    BY DEF TypeOK
  <2> QED
    BY <2>3, <2>4, <2>5, <2>6
<1>4. Credited(new, party) \in Int
  BY NewNoteType DEF Credited, CreditNote
<1> HIDE DEF new
<1> QED
  BY <1>1, <1>2, <1>3, <1>4, AccountSums

LEMMA SalePosted ==
    ASSUME TypeOK, TypeOK', NoteInv, LedgerMatchesDocuments, NEW r \in Reqs, CommitInvoice(r)
    PROVE  LedgerMatchesDocuments'
<1> SUFFICES ASSUME NEW party \in Parties
             PROVE  outstanding'[party] = SumFunction(Debits(invoices', party))
                                          - SumFunction(Credits(notes', party))
  BY DEF LedgerMatchesDocuments, DocumentBalance, Debits, Credits
<1> DEFINE q == req[r]
           new == NewInvoice(q)
<1>1. outstanding[party] = SumFunction(Debits(invoices, party)) - SumFunction(Credits(notes, party))
  BY LedgerSums
<1>2. SumFunction(Debits(invoices', party)) = SumFunction(Debits(invoices, party)) + Debited(new, party)
  BY SaleEntersAccounts
<1>3. Credits(notes', party) = Credits(notes, party)
  BY CreditsStay
<1>4. outstanding'[party] = outstanding[party] + Debited(new, party) /\ Debited(new, party) \in Int
  <2>1. q \in InvoiceReq
    BY RequestKind DEF CommitInvoice
  <2>2. q.credit \in Nat /\ q.applied \in Nat
    BY <2>1, BillingAssumption DEF InvoiceReq
  <2>3. new.party = ResolvedParty(q) /\ new.credit = q.credit /\ new.applied = q.applied
    BY DEF NewInvoice
  <2>4. outstanding' = WriteLedger(ResolvedParty(q), q.credit + q.applied, 0)
    BY DEF CommitInvoice
  <2> HIDE DEF q, new
  <2>5. outstanding'[party] = IF ResolvedParty(q) = party
                              THEN outstanding[party] + (q.credit + q.applied)
                              ELSE outstanding[party]
    BY <2>2, <2>4, ShopAssumption DEF WriteLedger, TypeOK
  <2>6. outstanding[party] \in Int
    BY DEF TypeOK
  <2> QED
    BY <2>2, <2>3, <2>5, <2>6 DEF Debited
<1> HIDE DEF new
<1> QED
  BY <1>1, <1>2, <1>3, <1>4, AccountSums

LEMMA LedgerStep ==
    ASSUME TypeOK, TypeOK', NoteInv, LedgerMatchesDocuments, [Next]_vars
    PROVE  LedgerMatchesDocuments'
<1>1. ASSUME UNCHANGED <<outstanding, notes>>,
             \A party \in Parties : Debits(invoices', party) = Debits(invoices, party)
      PROVE  LedgerMatchesDocuments'
  BY <1>1 DEF LedgerMatchesDocuments, DocumentBalance, Debits, Credits
<1>2. ASSUME UNCHANGED tables
      PROVE  LedgerMatchesDocuments'
  BY <1>1, <1>2 DEF tables
<1>3. ASSUME NEW r \in Reqs, CommitInvoice(r)
      PROVE  LedgerMatchesDocuments'
  BY <1>3, SalePosted
<1>4. ASSUME NEW i \in 1..Len(invoices), ConvertEstimate(i)
      PROVE  LedgerMatchesDocuments'
  BY <1>1, <1>4, SalesStay DEF ConvertEstimate
<1>5. ASSUME NEW r \in Reqs, CommitReturn(r)
      PROVE  LedgerMatchesDocuments'
  <2> DEFINE c == invoices[req[r].invoice].party
  <2>1. /\ PostReturn(req[r].form, req[r].mode, c)
        /\ req[r].form \in ReturnForms /\ req[r].mode \in RefundModes /\ c \in Customers
    BY <1>5, ReturnRequest DEF CommitReturn
  <2>2. \A party \in Parties : Debits(invoices', party) = Debits(invoices, party)
    BY <1>5, SalesStay
  <2> HIDE DEF c
  <2> QED
    BY <2>1, <2>2, NotePosted
<1>6. ASSUME NEW f \in WalkInForms, NEW m \in RefundModes, NEW c \in Customers,
             WalkInReturn(f, m, c)
      PROVE  LedgerMatchesDocuments'
  <2>1. f \in ReturnForms /\ PostReturn(f, m, c) /\ UNCHANGED invoices
    BY <1>6, ReturnsAssumption DEF WalkInReturn
  <2> QED
    BY <2>1, NotePosted
<1>7. CASE BillingNext
  BY <1>2, <1>3, <1>4, <1>7 DEF BillingNext, SubmitInvoice
<1>8. CASE ReturnsNext
  BY <1>2, <1>5, <1>6, <1>8 DEF ReturnsNext, BeginReturn, RetryReturn
<1>9. CASE (\E r \in Reqs : Rollback(r)) \/ UNCHANGED vars
  BY <1>2, <1>9 DEF Rollback, vars
<1> QED
  BY <1>7, <1>8, <1>9 DEF Next

(* What every customer owes is the sum of the customer's own documents,    *)
(* whatever order they were posted in and whatever rolled back in between  *)
(* (billing.js writeLedgerDebit, parties.js writeLedgerEntry).             *)
THEOREM LedgerBalances == Spec => []LedgerMatchesDocuments
<1>1. Init => LedgerMatchesDocuments
  <2> SUFFICES ASSUME Init, NEW party \in Parties
               PROVE  outstanding[party] = SumFunction(Debits(invoices, party))
                                           - SumFunction(Credits(notes, party))
    BY LedgerSums
  <2>1. /\ outstanding[party] = 0
        /\ Debits(invoices, party) \in [{} -> Int]
        /\ Credits(notes, party) \in [{} -> Int]
    BY DEF Init, TablesInit, Debits, Credits
  <2> HIDE DEF Debits, Credits
  <2>2. SumFunction(Debits(invoices, party)) = 0 /\ SumFunction(Credits(notes, party)) = 0
    <3>1. \A fun \in [{} -> Int] : SumFunction(fun) = 0
      BY SumOfNone
    <3> QED
      BY <2>1, <3>1
  <2> QED
    BY <2>1, <2>2
<1>2. TypeOK /\ TypeOK' /\ NoteInv /\ LedgerMatchesDocuments /\ [Next]_vars
        => LedgerMatchesDocuments'
  BY LedgerStep
<1> QED
  BY <1>1, <1>2, TypeCorrect, NoteInvariant, PTL DEF Spec

-----------------------------------------------------------------------------
(* The equation of GoodsConserved is inductive by itself; that no customer *)
(* has less than nothing of a sale is what races of returns must not break.*)
UnitsAccounted ==
    \A p \in Parts :
        /\ WalkedIn(p) >= 0
        /\ stockQty[p] + damagedQty[p] + HandedOut(p) = Opening[p] + WalkedIn(p)

LEMMA GoodsSums ==
    UnitsAccounted <=>
        \A p \in Parts :
            LET walked == moved["SALES_RETURN_IN"][p] + moved["SALES_RETURN_DAMAGED"][p]
                          - SumFunction(ReturnedOf(invoices, p))
            IN  /\ walked >= 0
                /\ stockQty[p] + damagedQty[p] + SumFunction(NetOf(invoices, p)) = Opening[p] + walked
BY DEF UnitsAccounted, HandedOut, Net, WalkedIn, NetOf, ReturnedOf

LEMMA Stocked ==
    ASSUME TypeOK, NEW p \in Parts
    PROVE  /\ stockQty[p] \in Nat /\ damagedQty[p] \in Nat /\ Opening[p] \in Nat
           /\ moved["SALES_RETURN_IN"] \in Quantities /\ moved["SALES_RETURN_DAMAGED"] \in Quantities
           /\ moved["SALES_RETURN_IN"][p] \in Nat /\ moved["SALES_RETURN_DAMAGED"][p] \in Nat
<1>1. /\ stockQty \in Quantities /\ damagedQty \in Quantities /\ Opening \in Quantities
      /\ moved["SALES_RETURN_IN"] \in Quantities /\ moved["SALES_RETURN_DAMAGED"] \in Quantities
  BY ShopAssumption DEF TypeOK, MoveTypes
<1> QED
  BY <1>1 DEF Quantities

(* A sale hands units over the counter, a return invoice takes them from   *)
(* the customer, an estimate touches none.                                 *)
LEMMA SaleConserves ==
    ASSUME TypeOK, TypeOK', UnitsAccounted, NEW r \in Reqs, CommitInvoice(r)
    PROVE  UnitsAccounted'
<1> DEFINE q == req[r]
           new == NewInvoice(q)
<1>1. /\ q.cart \in Quantities /\ q.kind \in Kinds
      /\ new.kind = q.kind /\ new.cart = q.cart /\ new.returned = Nothing
      /\ stockQty' = StockAfter(q) /\ damagedQty' = damagedQty
      /\ moved' = [moved EXCEPT ![MoveTypeOf(q.kind)] = Plus(@, q.cart)]
  <2>1. q \in InvoiceReq
    BY RequestKind DEF CommitInvoice
  <2> QED
    BY <2>1, BillingAssumption, ShopAssumption DEF InvoiceReq, NewInvoice, CommitInvoice
<1>2. /\ moved'["SALES_RETURN_IN"] = moved["SALES_RETURN_IN"]
      /\ moved'["SALES_RETURN_DAMAGED"] = moved["SALES_RETURN_DAMAGED"]
  <2>1. MoveTypeOf(q.kind) \in {"SALE", "ESTIMATE", "RETURN_OUT"}
    BY <1>1 DEF MoveTypeOf, Kinds
  <2> QED
    BY <1>1, <2>1 DEF TypeOK, MoveTypes
<1>3. ASSUME NEW p \in Parts
      PROVE  /\ SumFunction(NetOf(invoices', p)) = SumFunction(NetOf(invoices, p)) + Net(new, p)
             /\ SumFunction(ReturnedOf(invoices', p)) = SumFunction(ReturnedOf(invoices, p))
             /\ stockQty'[p] + Net(new, p) = stockQty[p] /\ Net(new, p) \in Int
  <2>1. /\ SumFunction(NetOf(invoices', p)) = SumFunction(NetOf(invoices, p)) + Net(new, p)
        /\ SumFunction(ReturnedOf(invoices', p)) = SumFunction(ReturnedOf(invoices, p))
    BY SaleEntersAccounts
  <2>2. q.cart[p] \in Nat /\ stockQty[p] \in Nat
    BY <1>1, Stocked DEF Quantities
  <2>3. /\ q.kind = "SALE" => stockQty'[p] = stockQty[p] - q.cart[p]
        /\ q.kind = "RETURN" => stockQty'[p] = stockQty[p] + q.cart[p]
        /\ q.kind = "ESTIMATE" => stockQty'[p] = stockQty[p]
    BY <1>1 DEF StockAfter, Plus, Minus
  <2>4. Net(new, p) = (IF q.kind = "SALE" THEN q.cart[p] ELSE 0) - (IF q.kind = "RETURN" THEN q.cart[p] ELSE 0) - 0
    <3>1. new.returned[p] = 0
      BY <1>1 DEF Nothing
    <3> HIDE DEF new, q
    <3> QED
      BY <1>1, <2>2, <3>1 DEF Net, Kept, BroughtIn, Kinds
  <2> HIDE DEF q, new
  <2> QED
    BY <1>1, <2>1, <2>2, <2>3, <2>4 DEF Kinds
<1> HIDE DEF q, new
<1>4. \A p \in Parts : /\ SumFunction(NetOf(invoices, p)) \in Int
                       /\ SumFunction(ReturnedOf(invoices, p)) \in Int
  BY AccountSums
<1> SUFFICES ASSUME NEW p \in Parts
    PROVE LET walked == moved'["SALES_RETURN_IN"][p] + moved'["SALES_RETURN_DAMAGED"][p]
                          - SumFunction(ReturnedOf(invoices', p))
          IN  /\ walked >= 0
              /\ stockQty'[p] + damagedQty'[p] + SumFunction(NetOf(invoices', p)) = Opening[p] + walked
  BY DEF UnitsAccounted, HandedOut, Net, WalkedIn, NetOf, ReturnedOf
<1>5. stockQty'[p] \in Nat /\ stockQty[p] \in Nat /\ damagedQty[p] \in Nat /\ Opening[p] \in Nat
  BY Stocked, ShopAssumption DEF TypeOK, Quantities
<1>6. LET walked == moved["SALES_RETURN_IN"][p] + moved["SALES_RETURN_DAMAGED"][p]
                          - SumFunction(ReturnedOf(invoices, p))
      IN  /\ walked >= 0
          /\ stockQty[p] + damagedQty[p] + SumFunction(NetOf(invoices, p)) = Opening[p] + walked
  BY GoodsSums
<1> QED
  BY <1>1, <1>2, <1>3, <1>4, <1>5, <1>6, Stocked

(* A return puts the units that come back on the shelf or in the damaged   *)
(* bin; those of an invoice leave its customer, those without one walk in. *)
LEMMA ReturnConserves ==
    ASSUME TypeOK, TypeOK', UnitsAccounted,
           NEW f \in ReturnForms, NEW m \in RefundModes, NEW c \in Customers,
           PostReturn(f, m, c),
           \A p \in Parts :
              LET n == AllUnits(f)[p] IN
              \/ /\ SumFunction(NetOf(invoices', p)) = SumFunction(NetOf(invoices, p)) - n
                 /\ SumFunction(ReturnedOf(invoices', p)) = SumFunction(ReturnedOf(invoices, p)) + n
              \/ /\ SumFunction(NetOf(invoices', p)) = SumFunction(NetOf(invoices, p))
                 /\ SumFunction(ReturnedOf(invoices', p)) = SumFunction(ReturnedOf(invoices, p))
    PROVE  UnitsAccounted'
<1> SUFFICES ASSUME NEW p \in Parts
    PROVE LET walked == moved'["SALES_RETURN_IN"][p] + moved'["SALES_RETURN_DAMAGED"][p]
                          - SumFunction(ReturnedOf(invoices', p))
          IN  /\ walked >= 0
              /\ stockQty'[p] + damagedQty'[p] + SumFunction(NetOf(invoices', p)) = Opening[p] + walked
  BY DEF UnitsAccounted, HandedOut, Net, WalkedIn, NetOf, ReturnedOf
<1>1. f.good[p] \in Nat /\ f.bad[p] \in Nat /\ AllUnits(f)[p] = f.good[p] + f.bad[p]
  BY ReturnsAssumption DEF Quantities, AllUnits, Plus
<1>2. /\ stockQty'[p] = stockQty[p] + f.good[p]
      /\ damagedQty'[p] = damagedQty[p] + f.bad[p]
  BY DEF PostReturn, Plus
<1>3. /\ moved'["SALES_RETURN_IN"][p] = moved["SALES_RETURN_IN"][p] + f.good[p]
      /\ moved'["SALES_RETURN_DAMAGED"][p] = moved["SALES_RETURN_DAMAGED"][p] + f.bad[p]
  BY DEF PostReturn, TypeOK, MoveTypes, Plus
<1>4. LET walked == moved["SALES_RETURN_IN"][p] + moved["SALES_RETURN_DAMAGED"][p]
                          - SumFunction(ReturnedOf(invoices, p))
      IN  /\ walked >= 0
          /\ stockQty[p] + damagedQty[p] + SumFunction(NetOf(invoices, p)) = Opening[p] + walked
  BY GoodsSums
<1>5. SumFunction(NetOf(invoices, p)) \in Int /\ SumFunction(ReturnedOf(invoices, p)) \in Int
  BY AccountSums
<1> QED
  BY <1>1, <1>2, <1>3, <1>4, <1>5, Stocked

LEMMA GoodsStep ==
    ASSUME TypeOK, TypeOK', UnitsAccounted, [Next]_vars
    PROVE  UnitsAccounted'
<1>1. ASSUME UNCHANGED <<stockQty, damagedQty, moved>>,
             \A p \in Parts : /\ NetOf(invoices', p) = NetOf(invoices, p)
                             /\ ReturnedOf(invoices', p) = ReturnedOf(invoices, p)
      PROVE  UnitsAccounted'
  BY <1>1 DEF UnitsAccounted, HandedOut, Net, WalkedIn, NetOf, ReturnedOf
<1>2. ASSUME UNCHANGED tables
      PROVE  UnitsAccounted'
  BY <1>1, <1>2 DEF tables
<1>3. ASSUME NEW r \in Reqs, CommitInvoice(r)
      PROVE  UnitsAccounted'
  BY <1>3, SaleConserves
<1>4. ASSUME NEW i \in 1..Len(invoices), ConvertEstimate(i)
      PROVE  UnitsAccounted'
  BY <1>1, <1>4, UnitsStay DEF ConvertEstimate
<1>5. ASSUME NEW r \in Reqs, CommitReturn(r)
      PROVE  UnitsAccounted'
  <2> DEFINE c == invoices[req[r].invoice].party
             f == req[r].form
             m == req[r].mode
  <2>1. /\ PostReturn(f, m, c)
        /\ f \in ReturnForms /\ m \in RefundModes /\ c \in Customers
    BY <1>5, ReturnRequest DEF CommitReturn
  <2>2. \A p \in Parts :
           /\ SumFunction(NetOf(invoices', p)) = SumFunction(NetOf(invoices, p)) - AllUnits(f)[p]
           /\ SumFunction(ReturnedOf(invoices', p)) = SumFunction(ReturnedOf(invoices, p)) + AllUnits(f)[p]
    BY <1>5, ReturnEntersAccounts
  <2> HIDE DEF c, f, m
  <2> QED
    BY <2>1, <2>2, ReturnConserves
<1>6. ASSUME NEW f \in WalkInForms, NEW m \in RefundModes, NEW c \in Customers,
             WalkInReturn(f, m, c)
      PROVE  UnitsAccounted'
  <2>1. f \in ReturnForms /\ PostReturn(f, m, c) /\ UNCHANGED invoices
    BY <1>6, ReturnsAssumption DEF WalkInReturn
  <2> QED
    BY <2>1, ReturnConserves
<1>7. CASE BillingNext
  BY <1>2, <1>3, <1>4, <1>7 DEF BillingNext, SubmitInvoice
<1>8. CASE ReturnsNext
  BY <1>2, <1>5, <1>6, <1>8 DEF ReturnsNext, BeginReturn, RetryReturn
<1>9. CASE (\E r \in Reqs : Rollback(r)) \/ UNCHANGED vars
  BY <1>2, <1>9 DEF Rollback, vars
<1> QED
  BY <1>7, <1>8, <1>9 DEF Next

LEMMA UnitsAreAccounted == Spec => []UnitsAccounted
<1>1. Init => UnitsAccounted
  <2> SUFFICES ASSUME Init, NEW p \in Parts
      PROVE LET walked == moved["SALES_RETURN_IN"][p] + moved["SALES_RETURN_DAMAGED"][p]
                            - SumFunction(ReturnedOf(invoices, p))
            IN  /\ walked >= 0
                /\ stockQty[p] + damagedQty[p] + SumFunction(NetOf(invoices, p)) = Opening[p] + walked
    BY GoodsSums
  <2>1. /\ stockQty[p] = Opening[p] /\ damagedQty[p] = 0
        /\ moved["SALES_RETURN_IN"][p] = 0 /\ moved["SALES_RETURN_DAMAGED"][p] = 0
        /\ NetOf(invoices, p) \in [{} -> Int]
        /\ ReturnedOf(invoices, p) \in [{} -> Int]
    BY DEF Init, TablesInit, NetOf, ReturnedOf, Nothing, MoveTypes
  <2> HIDE DEF NetOf, ReturnedOf
  <2>2. SumFunction(NetOf(invoices, p)) = 0 /\ SumFunction(ReturnedOf(invoices, p)) = 0
    <3>1. \A fun \in [{} -> Int] : SumFunction(fun) = 0
      BY SumOfNone
    <3> QED
      BY <2>1, <3>1
  <2>3. Opening[p] \in Nat
    BY ShopAssumption DEF Quantities
  <2> QED
    BY <2>1, <2>2, <2>3
<1>2. TypeOK /\ TypeOK' /\ UnitsAccounted /\ [Next]_vars => UnitsAccounted'
  BY GoodsStep
<1> QED
  BY <1>1, <1>2, TypeCorrect, PTL DEF Spec

(* Every unit the shop opened with or took in is on the shelf, in the      *)
(* damaged bin or with the customer of a sale, and none of the three is    *)
(* ever less than nothing, whatever sales and returns race; what comes in  *)
(* through a document that sold nothing is counted as such (billing.js     *)
(* createInvoice, salesReturns.js).                                        *)
THEOREM GoodsAccounted == OneLinePerPart => (Spec => []GoodsConserved)
<1>1. TypeOK /\ UnitsAccounted /\ ReturnedWithinSold => GoodsConserved
  <2> SUFFICES ASSUME TypeOK, UnitsAccounted, ReturnedWithinSold, NEW p \in Parts
               PROVE  /\ stockQty[p] >= 0 /\ damagedQty[p] >= 0
                      /\ \A i \in 1..Len(invoices) : Kept(invoices[i], p) >= 0
    BY DEF UnitsAccounted, GoodsConserved
  <2>1. stockQty[p] \in Nat /\ damagedQty[p] \in Nat
    BY Stocked
  <2>2. ASSUME NEW i \in 1..Len(invoices)
        PROVE  Kept(invoices[i], p) >= 0
    <3>1. invoices[i].cart[p] \in Nat /\ invoices[i].returned[p] \in Nat
      BY InvoiceRows DEF Quantities
    <3>2. invoices[i].returned[p] <= invoices[i].cart[p]
      BY DEF ReturnedWithinSold, Covers
    <3> QED
      BY <3>1, <3>2 DEF Kept
  <2> QED
    BY <2>1, <2>2
<1> QED
  BY <1>1, UnitsAreAccounted, NoOverReturn, TypeCorrect, PTL

-----------------------------------------------------------------------------
(* The balance of a note, sale by sale.  A note that is about to be issued *)
(* has been redeemed by no sale, since none names a note that is not yet   *)
(* there.                                                                  *)
RedeemedOf(rows, n) == [i \in 1..Len(rows) |-> Redeemed(rows[i], n)]
Worth(note) == IF note.status = "REFUNDED" THEN 0 ELSE note.total

NotesNamed == \A i \in 1..Len(invoices) : invoices[i].note <= Len(notes)

BalanceInv == NotesNamed /\ NoteBalanceExplained

LEMMA BalanceSums ==
    NoteBalanceExplained <=>
        \A n \in 1..Len(notes) :
            notes[n].remaining = Worth(notes[n]) - SumFunction(RedeemedOf(invoices, n))
BY DEF NoteBalanceExplained, Worth, RedeemedOf

LEMMA RedemptionType ==
    ASSUME NEW rows \in Seq(Invoice), NEW n
    PROVE  RedeemedOf(rows, n) \in [1..Len(rows) -> Int]
<1>1. ASSUME NEW i \in 1..Len(rows)
      PROVE  Redeemed(rows[i], n) \in Int
  <2>1. rows[i] \in Invoice
    OBVIOUS
  <2> QED
    BY <2>1 DEF Invoice, Redeemed
<1> QED
  BY <1>1 DEF RedeemedOf

LEMMA BalancesTyped ==
    ASSUME TypeOK
    PROVE  /\ Len(notes) \in Nat /\ Len(invoices) \in Nat
           /\ \A n \in 1..Len(notes) : notes[n].remaining \in Nat /\ Worth(notes[n]) \in Nat
           /\ \A i \in 1..Len(invoices) : invoices[i].note \in Nat /\ invoices[i].applied \in Nat
           /\ \A n : SumFunction(RedeemedOf(invoices, n)) \in Int
<1>1. Len(notes) \in Nat /\ Len(invoices) \in Nat
  BY DEF TypeOK
<1>2. \A n \in 1..Len(notes) : notes[n] \in CreditNote
  BY DEF TypeOK
<1>3. \A i \in 1..Len(invoices) : invoices[i] \in Invoice
  BY DEF TypeOK
<1>4. ASSUME NEW n
      PROVE  SumFunction(RedeemedOf(invoices, n)) \in Int
  <2>1. RedeemedOf(invoices, n) \in [1..Len(invoices) -> Int]
    BY RedemptionType DEF TypeOK
  <2>2. IsFiniteSet(1..Len(invoices))
    BY <1>1, FS_Interval
  <2> QED
    BY <2>1, <2>2, SumOfInts
<1> QED
  BY <1>1, <1>2, <1>3, <1>4 DEF CreditNote, Invoice, Worth

(* A sale enters the sum of the note it names and of no other.             *)
LEMMA SaleRedeems ==
    ASSUME TypeOK, TypeOK', NEW r \in Reqs, CommitInvoice(r), NEW n
    PROVE  SumFunction(RedeemedOf(invoices', n)) =
             SumFunction(RedeemedOf(invoices, n)) + Redeemed(NewInvoice(req[r]), n)
<1> DEFINE new == NewInvoice(req[r])
           k == Len(invoices)
<1>1. /\ k \in Nat
      /\ Len(invoices') = k + 1
      /\ \A i \in 1..k : invoices'[i] = invoices[i]
      /\ invoices'[k + 1] = new
  BY DEF CommitInvoice, TypeOK
<1> HIDE DEF new, k
<1>2. /\ RedeemedOf(invoices, n) \in [1..k -> Int]
      /\ RedeemedOf(invoices', n) \in [1..(k + 1) -> Int]
  BY <1>1, RedemptionType DEF TypeOK, k
<1>3. /\ \A i \in 1..k : RedeemedOf(invoices', n)[i] = RedeemedOf(invoices, n)[i]
      /\ RedeemedOf(invoices', n)[k + 1] = Redeemed(new, n)
  BY <1>1 DEF RedeemedOf, k
<1> HIDE DEF RedeemedOf
<1> QED
  BY <1>1, <1>2, <1>3, SumRowAppended DEF new

(* A return and a conversion redeem nothing.                               *)
LEMMA RedemptionsStay ==
    ASSUME TypeOK,
           \/ UNCHANGED invoices
           \/ \E i \in 1..Len(invoices) : ConvertEstimate(i)
           \/ \E r \in Reqs : CommitReturn(r)
    PROVE  /\ \A n : RedeemedOf(invoices', n) = RedeemedOf(invoices, n)
           /\ Len(invoices') = Len(invoices)
           /\ \A i \in 1..Len(invoices) : invoices'[i].note = invoices[i].note
<1>1. CASE UNCHANGED invoices
  BY <1>1 DEF RedeemedOf
<1>2. CASE ~ UNCHANGED invoices
  <2>1. PICK i \in 1..Len(invoices) :
           \/ ConvertEstimate(i)
           \/ \E r \in Reqs : CommitReturn(r) /\ req[r].invoice = i
    BY <1>2, ReturnRequest DEF CommitReturn
  <2>2. /\ Len(invoices') = Len(invoices)
        /\ \A j \in 1..Len(invoices) : SameSale(invoices'[j], invoices[j])
    BY <2>1, InvoiceUpdates
  <2> QED
    BY <2>2 DEF RedeemedOf, Redeemed, SameSale
<1> QED
  BY <1>1, <1>2

LEMMA SaleExplained ==
    ASSUME TypeOK, TypeOK', NoteInv, BalanceInv, NEW r \in Reqs, CommitInvoice(r)
    PROVE  BalanceInv'
<1> DEFINE q == req[r]
           new == NewInvoice(q)
<1>1. /\ q \in InvoiceReq /\ q.note \in Nat /\ q.applied \in Nat
      /\ q.note <= Len(notes)
      /\ new.note = q.note /\ new.applied = q.applied
  <2>1. q \in InvoiceReq /\ q.note <= Len(notes)
    BY RequestKind DEF CommitInvoice, TypeOK
  <2>2. q.note \in 0..MaxNotes /\ q.applied \in AppliedAmounts
    BY <2>1 DEF InvoiceReq
  <2>3. q.note \in Nat /\ q.applied \in Nat
    <3>1. q.applied \in Nat
      BY <2>2, BillingAssumption
    <3> HIDE DEF q
    <3>2. q.note \in Nat
      BY <2>2
    <3> QED
      BY <3>1, <3>2
  <2>4. new.note = q.note /\ new.applied = q.applied
    BY DEF NewInvoice
  <2> QED
    BY <2>1, <2>3, <2>4
<1>2. /\ Len(invoices') = Len(invoices) + 1
      /\ \A i \in 1..Len(invoices) : invoices'[i] = invoices[i]
      /\ invoices'[Len(invoices) + 1] = new
  BY DEF CommitInvoice, TypeOK
<1>3. /\ Len(notes') = Len(notes)
      /\ \A n \in 1..Len(notes) :
           /\ notes'[n].remaining = notes[n].remaining - Redeemed(new, n)
           /\ Worth(notes'[n]) = Worth(notes[n])
  <2>1. CASE q.note = 0
    BY <1>1, <2>1, BalancesTyped DEF CommitInvoice, Redeemed
  <2>2. CASE q.note # 0
    <3> DEFINE k == q.note
               row == Redeem(notes[k], q.applied)
    <3>1. /\ k \in 1..Len(notes) /\ notes' = [notes EXCEPT ![k] = row]
          /\ notes[k].status # "REFUNDED"
      BY <2>2, RedeemStep
    <3>2. /\ row.remaining = notes[k].remaining - q.applied /\ row.total = notes[k].total
          /\ row.status # "REFUNDED"
      <4>1. notes[k] \in CreditNote
        BY <3>1 DEF TypeOK
      <4> QED
        BY <4>1 DEF Redeem, CreditNote
    <3> HIDE DEF row, k
    <3>3. Len(notes') = Len(notes) /\ \A n \in 1..Len(notes) : notes'[n] = IF n = k THEN row ELSE notes[n]
      BY <3>1 DEF TypeOK
    <3>4. \A n \in 1..Len(notes) : notes[n].remaining \in Nat
      BY BalancesTyped
    <3>5. \A n \in 1..Len(notes) : Redeemed(new, n) = IF n = k THEN q.applied ELSE 0
      BY <1>1 DEF Redeemed, k
    <3> HIDE DEF new, q
    <3> QED
      BY <3>1, <3>2, <3>3, <3>4, <3>5 DEF Worth
  <2> QED
    BY <2>1, <2>2
<1> HIDE DEF q, new
<1>4. NotesNamed'
  BY <1>1, <1>2, <1>3, BalancesTyped DEF BalanceInv, NotesNamed
<1>5. ASSUME NEW n \in 1..Len(notes)
      PROVE  notes'[n].remaining = Worth(notes'[n]) - SumFunction(RedeemedOf(invoices', n))
  <2>1. SumFunction(RedeemedOf(invoices', n)) = SumFunction(RedeemedOf(invoices, n)) + Redeemed(new, n)
    BY SaleRedeems DEF new, q
  <2>2. notes[n].remaining = Worth(notes[n]) - SumFunction(RedeemedOf(invoices, n))
    BY BalanceSums DEF BalanceInv
  <2>3. Redeemed(new, n) \in Int
    BY <1>1 DEF Redeemed
  <2> HIDE DEF RedeemedOf, Worth
  <2> QED
    BY <1>3, <2>1, <2>2, <2>3, BalancesTyped
<1> QED
  BY <1>3, <1>4, <1>5 DEF BalanceInv, NoteBalanceExplained, Worth, RedeemedOf

LEMMA ReturnExplained ==
    ASSUME TypeOK, TypeOK', BalanceInv,
           NEW f \in ReturnForms, NEW m \in RefundModes, NEW c \in Customers,
           PostReturn(f, m, c),
           \A n : RedeemedOf(invoices', n) = RedeemedOf(invoices, n),
           Len(invoices') = Len(invoices),
           \A i \in 1..Len(invoices) : invoices'[i].note = invoices[i].note
    PROVE  BalanceInv'
<1> DEFINE k == Len(notes)
           new == NewNote(f, m, c)
<1>1. /\ Len(notes') = k + 1 /\ k \in Nat
      /\ \A n \in 1..k : notes'[n] = notes[n]
      /\ notes'[k + 1] = new
  BY DEF PostReturn, TypeOK
<1>2. NotesNamed'
  BY <1>1, BalancesTyped DEF BalanceInv, NotesNamed
<1>3. \A n \in 1..k : notes'[n].remaining = Worth(notes'[n]) - SumFunction(RedeemedOf(invoices', n))
  <2> HIDE DEF k, new
  <2>1. \A n \in 1..k : notes[n].remaining = Worth(notes[n]) - SumFunction(RedeemedOf(invoices, n))
    BY BalanceSums DEF BalanceInv, k
  <2> HIDE DEF RedeemedOf, Worth
  <2> QED
    BY <1>1, <2>1
<1>4. SumFunction(RedeemedOf(invoices', k + 1)) = 0
  <2>1. /\ IsFiniteSet(1..Len(invoices))
        /\ RedeemedOf(invoices, k + 1) \in [1..Len(invoices) -> Int]
    <3>1. IsFiniteSet(1..Len(invoices))
      BY BalancesTyped, FS_Interval
    <3>2. invoices \in Seq(Invoice)
      BY DEF TypeOK
    <3> QED
      BY <3>1, <3>2, RedemptionType
  <2>2. \A i \in 1..Len(invoices) : RedeemedOf(invoices, k + 1)[i] = 0
    BY <1>1, BalancesTyped DEF BalanceInv, NotesNamed, RedeemedOf, Redeemed
  <2> HIDE DEF RedeemedOf
  <2> QED
    BY <2>1, <2>2, SumOfZeros
<1>5. new.remaining = Worth(new) /\ new.remaining \in Nat
  BY ReturnsAssumption DEF NewNote, Worth, StoreCredit
<1>6. \A n \in 1..(k + 1) : notes'[n].remaining = Worth(notes'[n]) - SumFunction(RedeemedOf(invoices', n))
  <2> HIDE DEF k, new, RedeemedOf, Worth
  <2>1. \A n \in 1..(k + 1) : n \in 1..k \/ n = k + 1
    BY <1>1
  <2> QED
    BY <1>1, <1>3, <1>4, <1>5, <2>1
<1> QED
  BY <1>1, <1>2, <1>6 DEF BalanceInv, NoteBalanceExplained, Worth, RedeemedOf

LEMMA BalanceStep ==
    ASSUME TypeOK, TypeOK', NoteInv, BalanceInv, [Next]_vars
    PROVE  BalanceInv'
<1>1. ASSUME UNCHANGED notes,
             \A n : RedeemedOf(invoices', n) = RedeemedOf(invoices, n),
             Len(invoices') = Len(invoices),
             \A i \in 1..Len(invoices) : invoices'[i].note = invoices[i].note
      PROVE  BalanceInv'
  BY <1>1 DEF BalanceInv, NotesNamed, NoteBalanceExplained, Worth, RedeemedOf
<1>2. ASSUME UNCHANGED tables
      PROVE  BalanceInv'
  BY <1>1, <1>2 DEF tables, RedeemedOf
<1>3. ASSUME NEW r \in Reqs, CommitInvoice(r)
      PROVE  BalanceInv'
  BY <1>3, SaleExplained
<1>4. ASSUME NEW i \in 1..Len(invoices), ConvertEstimate(i)
      PROVE  BalanceInv'
  BY <1>1, <1>4, RedemptionsStay DEF ConvertEstimate
<1>5. ASSUME NEW r \in Reqs, CommitReturn(r)
      PROVE  BalanceInv'
  <2> DEFINE c == invoices[req[r].invoice].party
  <2>1. /\ PostReturn(req[r].form, req[r].mode, c)
        /\ req[r].form \in ReturnForms /\ req[r].mode \in RefundModes /\ c \in Customers
    BY <1>5, ReturnRequest DEF CommitReturn
  <2> HIDE DEF c
  <2> QED
    BY <1>5, <2>1, RedemptionsStay, ReturnExplained
<1>6. ASSUME NEW f \in WalkInForms, NEW m \in RefundModes, NEW c \in Customers,
             WalkInReturn(f, m, c)
      PROVE  BalanceInv'
  <2>1. f \in ReturnForms /\ PostReturn(f, m, c) /\ UNCHANGED invoices
    BY <1>6, ReturnsAssumption DEF WalkInReturn
  <2> QED
    BY <2>1, RedemptionsStay, ReturnExplained
<1>7. CASE BillingNext
  BY <1>2, <1>3, <1>4, <1>7 DEF BillingNext, SubmitInvoice
<1>8. CASE ReturnsNext
  BY <1>2, <1>5, <1>6, <1>8 DEF ReturnsNext, BeginReturn, RetryReturn
<1>9. CASE (\E r \in Reqs : Rollback(r)) \/ UNCHANGED vars
  BY <1>2, <1>9 DEF Rollback, vars
<1> QED
  BY <1>7, <1>8, <1>9 DEF Next

(* Every note's balance is what the sales that name it left of it, however *)
(* many race to redeem it and whichever of them roll back (billing.js      *)
(* lines 486-500).                                                         *)
THEOREM NotesExplained == Spec => []NoteBalanceExplained
<1>1. Init => BalanceInv
  BY DEF Init, TablesInit, BalanceInv, NotesNamed, NoteBalanceExplained
<1>2. TypeOK /\ TypeOK' /\ NoteInv /\ BalanceInv /\ [Next]_vars => BalanceInv'
  BY BalanceStep
<1>3. BalanceInv => NoteBalanceExplained
  BY DEF BalanceInv
<1> QED
  BY <1>1, <1>2, <1>3, TypeCorrect, NoteInvariant, PTL DEF Spec

-----------------------------------------------------------------------------
(* Each step of an exchange is one that the two services make anyway, or   *)
(* leaves the store alone, so what was proved of the store holds under it. *)
LEMMA ExchangeStepIsStoreStep ==
    ASSUME [ExchangeNext]_allVars
    PROVE  [Next]_vars
<1>1. CASE PlainStep
  <2>1. ASSUME NEW f \in WalkInForms, NEW m \in RefundModes \ {"EXCHANGE"},
               NEW party \in Customers, WalkInReturn(f, m, party)
        PROVE  ReturnsNext
    BY <2>1 DEF ReturnsNext
  <2>2. \/ BillingNext \/ \E r \in Reqs : BeginReturn(r) \/ CommitReturn(r) \/ RetryReturn(r)
        \/ \E r \in Reqs : Rollback(r)
        \/ \E f \in WalkInForms, m \in RefundModes \ {"EXCHANGE"}, party \in Customers :
             WalkInReturn(f, m, party)
    BY <1>1 DEF PlainStep, BillingNext
  <2> QED
    BY <2>1, <2>2 DEF Next, ReturnsNext
<1>2. ASSUME NEW r \in Reqs, WalkInExchange(r)
      PROVE  ReturnsNext
  BY <1>2, ExchangesAssumption DEF WalkInExchange, ReturnsNext
<1>3. ASSUME NEW r \in Reqs,
             \/ BeginExchange(r) \/ CommitLegOne(r) \/ SubmitLegTwo(r)
             \/ CommitLegTwo(r) \/ RecordExchange(r) \/ DropExchange(r)
      PROVE  BillingNext \/ ReturnsNext \/ Rollback(r) \/ UNCHANGED vars
  BY <1>3 DEF BeginExchange, CommitLegOne, SubmitLegTwo, CommitLegTwo, RecordExchange,
              DropExchange, BillingNext, ReturnsNext
<1>4. CASE UNCHANGED allVars
  BY <1>4 DEF allVars
<1> QED
  BY <1>1, <1>2, <1>3, <1>4 DEF ExchangeNext, Next

LEMMA ExchangesAreStore == ExchangeSpec => Spec
<1>1. ExchangeInit => Init
  BY DEF ExchangeInit
<1>2. [ExchangeNext]_allVars => [Next]_vars
  BY ExchangeStepIsStoreStep
<1> QED
  BY <1>1, <1>2, PTL DEF ExchangeSpec, Spec

-----------------------------------------------------------------------------
(* That the recorded exchanges link their legs rests on what every request *)
(* holds between the legs.  A request past leg 1 holds a note of its own,  *)
(* which others may spend but none can re-issue; one inside leg 2 carries  *)
(* the sale that it checked against that note; one past leg 2 holds two    *)
(* legs that match.                                                        *)
Holding(c) == c # NoChain /\ c.stage \in {"returned", "sale", "sold"}
Selling(c) == c # NoChain /\ c.stage = "sale"
Sold(c) == c # NoChain /\ c.stage = "sold"

SaleOf(q, n, ns) ==
    /\ q.note = n
    /\ q.linked = ns[n].party
    /\ q.applied <= CartTotal[q.cart]

Linked(x, rows, ns) ==
    /\ x.invoice \in 1..Len(rows)
    /\ x.note \in 1..Len(ns)
    /\ rows[x.invoice].note = x.note
    /\ rows[x.invoice].applied > 0
    /\ rows[x.invoice].applied + ns[x.note].remaining <= ns[x.note].total
    /\ rows[x.invoice].applied <= CartTotal[rows[x.invoice].cart]
    /\ ns[x.note].party # NoParty => rows[x.invoice].party = ns[x.note].party

Fits(c, q, rows, ns) ==
    /\ Holding(c) => c.note \in 1..Len(ns)
    /\ Selling(c) => SaleOf(q, c.note, ns)
    /\ Sold(c) => Linked(c, rows, ns)

OwnNotes ==
    /\ \A r, s \in Reqs :
         Holding(chain[r]) /\ Holding(chain[s]) /\ chain[r].note = chain[s].note => r = s
    /\ \A r \in Reqs, i \in 1..Len(exchanges) :
         Holding(chain[r]) => chain[r].note # exchanges[i].note
    /\ \A i, j \in 1..Len(exchanges) : exchanges[i].note = exchanges[j].note => i = j

OwnInvoices ==
    /\ \A r, s \in Reqs :
         Sold(chain[r]) /\ Sold(chain[s]) /\ chain[r].invoice = chain[s].invoice => r = s
    /\ \A r \in Reqs, i \in 1..Len(exchanges) :
         Sold(chain[r]) => chain[r].invoice # exchanges[i].invoice
    /\ \A i, j \in 1..Len(exchanges) : exchanges[i].invoice = exchanges[j].invoice => i = j

ExchangeInv ==
    /\ chain \in [Reqs -> Chain \cup {NoChain}]
    /\ exchanges \in Seq([note : Nat, invoice : Nat])
    /\ \A r \in Reqs : Fits(chain[r], req[r], invoices, notes)
    /\ \A i \in 1..Len(exchanges) : Linked(exchanges[i], invoices, notes)
    /\ OwnNotes
    /\ OwnInvoices

LEMMA LegsLinked == ExchangeInv => ExchangesLinkTheirLegs
<1> SUFFICES ASSUME ExchangeInv
             PROVE  ExchangesLinkTheirLegs
  OBVIOUS
<1>1. DOMAIN exchanges = 1..Len(exchanges)
  BY DEF ExchangeInv
<1>2. \A i \in 1..Len(exchanges) : LegsMatch(exchanges[i])
  BY DEF ExchangeInv, Linked, LegsMatch
<1> QED
  BY <1>1, <1>2 DEF ExchangeInv, OwnNotes, OwnInvoices, ExchangesLinkTheirLegs

(* Rows are only added: a sale keeps what it sold, a note its customer and *)
(* its value.                                                              *)
LEMMA StoreGrows ==
    ASSUME TypeOK, NoteInv, [Next]_vars
    PROVE  /\ Len(notes) \in Nat /\ Len(invoices) \in Nat
           /\ Len(notes') \in Nat /\ Len(invoices') \in Nat
           /\ Len(notes) <= Len(notes') /\ Len(invoices) <= Len(invoices')
           /\ \A n \in 1..Len(notes) : /\ notes'[n].party = notes[n].party
                                      /\ notes'[n].total = notes[n].total
                                      /\ notes'[n].remaining <= notes[n].remaining
           /\ \A i \in 1..Len(invoices) : SameSale(invoices'[i], invoices[i])
<1>1. Len(notes) \in Nat /\ Len(invoices) \in Nat
  BY DEF TypeOK
<1>2. /\ Len(notes') \in Nat /\ Len(notes) <= Len(notes')
      /\ \A n \in 1..Len(notes) : /\ notes'[n].party = notes[n].party
                                 /\ notes'[n].total = notes[n].total
                                 /\ notes'[n].remaining <= notes[n].remaining
  <2>1. \A n \in 1..Len(notes) : notes[n] \in CreditNote /\ notes[n].remaining \in Nat
    <3>1. \A n \in 1..Len(notes) : notes[n] \in CreditNote
      BY DEF TypeOK
    <3> QED
      BY <3>1 DEF CreditNote
  <2>2. CASE UNCHANGED notes
    BY <1>1, <2>1, <2>2
  <2>3. ASSUME NEW r \in Reqs, CommitInvoice(r), req[r].note # 0
        PROVE  <1>2!:
    <3> DEFINE k == req[r].note
               row == Redeem(notes[k], req[r].applied)
    <3>1. /\ k \in 1..Len(notes) /\ notes' = [notes EXCEPT ![k] = row]
          /\ row.remaining <= notes[k].remaining
      BY <2>3, RedeemStep
    <3>2. row.party = notes[k].party /\ row.total = notes[k].total
      BY <2>1, <3>1 DEF Redeem, CreditNote
    <3> HIDE DEF row, k
    <3> QED
      BY <1>1, <2>1, <3>1, <3>2 DEF TypeOK
  <2>4. ASSUME NEW f \in ReturnForms, NEW m \in RefundModes, NEW c \in Customers,
               PostReturn(f, m, c)
        PROVE  <1>2!:
    BY <2>1, <2>4, NewNoteCoherent
  <2> QED
    BY <2>2, <2>3, <2>4, NotesStep
<1>3. /\ Len(invoices') \in Nat /\ Len(invoices) <= Len(invoices')
      /\ \A i \in 1..Len(invoices) : SameSale(invoices'[i], invoices[i])
  <2>1. CASE UNCHANGED invoices
    BY <1>1, <2>1 DEF SameSale
  <2>2. ASSUME NEW r \in Reqs, CommitInvoice(r)
        PROVE  <1>3!:
    BY <1>1, <2>2 DEF CommitInvoice, TypeOK, SameSale
  <2>3. ASSUME NEW i \in 1..Len(invoices),
               \/ ConvertEstimate(i)
               \/ \E r \in Reqs : CommitReturn(r) /\ req[r].invoice = i
        PROVE  <1>3!:
    BY <1>1, <2>3, InvoiceUpdates
  <2>4. ASSUME NEW r \in Reqs, CommitReturn(r)
        PROVE  <1>3!:
    BY <2>3, <2>4, ReturnRequest DEF CommitReturn
  <2>5. CASE BillingNext
    BY <2>1, <2>2, <2>3, <2>5 DEF BillingNext, SubmitInvoice, tables
  <2>6. CASE ReturnsNext
    BY <2>1, <2>4, <2>6 DEF ReturnsNext, BeginReturn, RetryReturn, WalkInReturn, tables
  <2>7. CASE (\E r \in Reqs : Rollback(r)) \/ UNCHANGED vars
    BY <2>1, <2>7 DEF Rollback, vars, tables
  <2> QED
    BY <2>5, <2>6, <2>7 DEF Next
<1> QED
  BY <1>1, <1>2, <1>3

LEMMA LinksLast ==
    ASSUME TypeOK, TypeOK', NoteInv, [Next]_vars
    PROVE  \A x : Linked(x, invoices, notes) => Linked(x, invoices', notes')
<1> SUFFICES ASSUME NEW x, Linked(x, invoices, notes)
             PROVE  Linked(x, invoices', notes')
  OBVIOUS
<1> DEFINE i == x.invoice
           n == x.note
<1>1. i \in 1..Len(invoices) /\ n \in 1..Len(notes)
  BY DEF Linked
<1>2. i \in 1..Len(invoices') /\ n \in 1..Len(notes')
  BY <1>1, StoreGrows
<1>3. /\ notes'[n].party = notes[n].party
      /\ notes'[n].total = notes[n].total
      /\ notes'[n].remaining <= notes[n].remaining
      /\ SameSale(invoices'[i], invoices[i])
  BY <1>1, StoreGrows
<1>4. /\ invoices[i].applied \in Nat
      /\ notes[n].remaining \in Nat /\ notes[n].total \in Nat /\ notes'[n].remaining \in Nat
  <2>1. invoices[i] \in Invoice /\ notes[n] \in CreditNote /\ notes'[n] \in CreditNote
    BY <1>1, <1>2 DEF TypeOK
  <2> QED
    BY <2>1 DEF Invoice, CreditNote
<1>5. /\ invoices'[i].note = n
      /\ invoices'[i].applied > 0
      /\ invoices'[i].applied <= CartTotal[invoices'[i].cart]
      /\ notes'[n].party # NoParty => invoices'[i].party = notes'[n].party
  BY <1>3 DEF Linked, SameSale
<1>6. invoices'[i].applied + notes'[n].remaining <= notes'[n].total
  BY <1>3, <1>4 DEF Linked, SameSale
<1> QED
  BY <1>2, <1>5, <1>6 DEF Linked

LEMMA FitLasts ==
    ASSUME TypeOK, TypeOK', NoteInv, [Next]_vars
    PROVE  \A c, q : Fits(c, q, invoices, notes) => Fits(c, q, invoices', notes')
<1> SUFFICES ASSUME NEW c, NEW q, Fits(c, q, invoices, notes)
             PROVE  Fits(c, q, invoices', notes')
  OBVIOUS
<1>1. Holding(c) => /\ c.note \in 1..Len(notes) /\ c.note \in 1..Len(notes')
                    /\ notes'[c.note].party = notes[c.note].party
  BY StoreGrows DEF Fits
<1>2. Selling(c) => Holding(c)
  BY DEF Selling, Holding
<1> QED
  BY <1>1, <1>2, LinksLast DEF Fits, SaleOf

(* A request may enter a stage with the note it held or one that is new,   *)
(* and with an invoice that is new.                                        *)
LEMMA StageEntered ==
    ASSUME TypeOK, TypeOK', NoteInv, ExchangeInv, [Next]_vars,
           NEW r \in Reqs, NEW st \in Chain \cup {NoChain}, Enters(r, st),
           \A s \in Reqs : s = r \/ req'[s] = req[s],
           Fits(st, req'[r], invoices', notes'),
           Holding(st) => \/ st.note = Len(notes) + 1
                          \/ Holding(chain[r]) /\ st.note = chain[r].note,
           Sold(st) => st.invoice = Len(invoices) + 1
    PROVE  ExchangeInv'
<1>1. /\ chain \in [Reqs -> Chain \cup {NoChain}]
      /\ exchanges' = exchanges /\ exchanges \in Seq([note : Nat, invoice : Nat])
      /\ \A s \in Reqs : chain'[s] = IF s = r THEN st ELSE chain[s]
      /\ chain' \in [Reqs -> Chain \cup {NoChain}]
  BY DEF Enters, ExchangeInv
<1>2. \A s \in Reqs : Fits(chain'[s], req'[s], invoices', notes')
  BY <1>1, FitLasts DEF ExchangeInv
<1>3. \A i \in 1..Len(exchanges) : Linked(exchanges[i], invoices', notes')
  BY LinksLast DEF ExchangeInv
<1>4. /\ Len(notes) \in Nat /\ Len(invoices) \in Nat
      /\ \A s \in Reqs : Holding(chain[s]) => chain[s].note \in 1..Len(notes)
      /\ \A s \in Reqs : Sold(chain[s]) => chain[s].invoice \in 1..Len(invoices)
      /\ \A i \in 1..Len(exchanges) : /\ exchanges[i].note \in 1..Len(notes)
                                      /\ exchanges[i].invoice \in 1..Len(invoices)
  BY StoreGrows DEF ExchangeInv, Fits, Linked
<1>5. OwnNotes'
  <2>1. \A s, t \in Reqs :
           Holding(chain'[s]) /\ Holding(chain'[t]) /\ chain'[s].note = chain'[t].note => s = t
    <3>1. ASSUME NEW s \in Reqs, Holding(st), Holding(chain[s]), st.note = chain[s].note
          PROVE  s = r
      BY <1>4, <3>1 DEF ExchangeInv, OwnNotes
    <3> QED
      BY <1>1, <3>1 DEF ExchangeInv, OwnNotes
  <2>2. \A s \in Reqs, i \in 1..Len(exchanges) :
           Holding(chain'[s]) => chain'[s].note # exchanges[i].note
    <3>1. ASSUME NEW i \in 1..Len(exchanges), Holding(st)
          PROVE  st.note # exchanges[i].note
      BY <1>4, <3>1 DEF ExchangeInv, OwnNotes
    <3> QED
      BY <1>1, <3>1 DEF ExchangeInv, OwnNotes
  <2>3. \A i, j \in 1..Len(exchanges) : exchanges[i].note = exchanges[j].note => i = j
    BY DEF ExchangeInv, OwnNotes
  <2> QED
    BY <1>1, <2>1, <2>2, <2>3 DEF OwnNotes
<1>6. OwnInvoices'
  BY <1>1, <1>4 DEF ExchangeInv, OwnInvoices
<1> QED
  BY <1>1, <1>2, <1>3, <1>5, <1>6 DEF ExchangeInv

(* No stage is entered: the request that moved has not got past leg 1.     *)
LEMMA StagesKept ==
    ASSUME TypeOK, TypeOK', NoteInv, ExchangeInv, [Next]_vars,
           UNCHANGED exchangeVars,
           \A s \in Reqs : req'[s] = req[s] \/ ~ Holding(chain[s])
    PROVE  ExchangeInv'
<1>1. chain' = chain /\ exchanges' = exchanges
  BY DEF exchangeVars
<1>2. \A s \in Reqs : Fits(chain[s], req'[s], invoices', notes')
  <2>1. \A c, q : ~ Holding(c) => Fits(c, q, invoices', notes')
    BY DEF Holding, Selling, Sold, Fits
  <2> QED
    BY <2>1, FitLasts DEF ExchangeInv
<1>3. \A i \in 1..Len(exchanges) : Linked(exchanges[i], invoices', notes')
  BY LinksLast DEF ExchangeInv
<1> QED
  BY <1>1, <1>2, <1>3 DEF ExchangeInv, OwnNotes, OwnInvoices

LEMMA OtherRequests ==
    ASSUME TypeOK, NEW r \in Reqs,
           \/ SubmitInvoice(r) \/ CommitInvoice(r) \/ BeginReturn(r)
           \/ CommitReturn(r) \/ RetryReturn(r) \/ Rollback(r)
    PROVE  \A s \in Reqs : s = r \/ req'[s] = req[s]
BY DEF SubmitInvoice, CommitInvoice, BeginReturn, CommitReturn, RetryReturn, Rollback, TypeOK

(* Leg 1 commits: the request holds the note it just issued.               *)
LEMMA LegOneStep ==
    ASSUME TypeOK, TypeOK', NoteInv, ExchangeInv, [Next]_vars,
           NEW r \in Reqs, Returned(r),
           NEW f \in ReturnForms, NEW m \in RefundModes, NEW c \in Customers,
           PostReturn(f, m, c),
           \A s \in Reqs : s = r \/ req'[s] = req[s]
    PROVE  ExchangeInv'
<1> DEFINE st == [stage |-> "returned", note |-> Len(notes) + 1]
<1>1. Len(notes) \in Nat /\ Len(notes') = Len(notes) + 1
  BY NewNoteCoherent
<1>2. st \in Chain /\ Enters(r, st) /\ Holding(st) /\ ~ Selling(st) /\ ~ Sold(st)
      /\ st.note = Len(notes) + 1
  BY <1>1, ExchangesAssumption DEF Returned, Chain, Holding, Selling, Sold
<1> HIDE DEF st
<1>3. Fits(st, req'[r], invoices', notes')
  BY <1>1, <1>2 DEF Fits
<1> QED
  BY <1>2, <1>3, StageEntered

(* Leg 2 is checked against the note: the sale it submits names that note, *)
(* its customer, and at most what the goods cost.                          *)
LEMMA LegTwoSubmitted ==
    ASSUME TypeOK, TypeOK', NoteInv, ExchangeInv, [Next]_vars,
           NEW r \in Reqs, SubmitLegTwo(r)
    PROVE  ExchangeInv'
<1> DEFINE n == chain[r].note
           st == [stage |-> "sale", note |-> n]
           q == req'[r]
<1>1. Holding(chain[r]) /\ n \in 1..Len(notes) /\ n \in Nat /\ n \in 1..Len(notes')
  BY StoreGrows DEF SubmitLegTwo, Holding, ExchangeInv, Fits
<1>2. /\ SubmitInvoice(r) /\ Enters(r, st)
      /\ q.note = n /\ q.linked = notes[n].party
      /\ q.applied = AppliedCredit(notes[n], q.cart)
  BY DEF SubmitLegTwo
<1>3. notes' = notes
  BY <1>2 DEF SubmitInvoice, tables
<1>4. q.applied <= CartTotal[q.cart]
  <2>1. q \in InvoiceReq
    BY <1>2 DEF SubmitInvoice, TypeOK
  <2>2. CartTotal[q.cart] \in Nat /\ notes[n].total \in Nat
    <3>1. notes[n] \in CreditNote
      BY <1>1 DEF TypeOK
    <3> QED
      BY <2>1, <3>1, ShopAssumption DEF InvoiceReq, CreditNote
  <2> HIDE DEF q, n
  <2> QED
    BY <1>2, <2>2 DEF AppliedCredit
<1>5. SaleOf(q, n, notes')
  BY <1>2, <1>3, <1>4 DEF SaleOf
<1>6. st \in Chain /\ Holding(st) /\ ~ Sold(st) /\ st.note = n
  BY <1>1, ExchangesAssumption DEF Chain, Holding, Sold
<1> HIDE DEF st, n, q
<1>7. Fits(st, q, invoices', notes')
  BY <1>1, <1>5, <1>6 DEF Fits
<1>8. \A s \in Reqs : s = r \/ req'[s] = req[s]
  BY <1>2, OtherRequests
<1> QED
  BY <1>1, <1>2, <1>6, <1>7, <1>8, StageEntered DEF q, n

(* Leg 2 commits: whatever others spent of the note in between, the sale   *)
(* took from it what was still there, and the two legs match.              *)
LEMMA LegTwoCommitted ==
    ASSUME TypeOK, TypeOK', NoteInv, ExchangeInv, [Next]_vars,
           NEW r \in Reqs, CommitLegTwo(r)
    PROVE  ExchangeInv'
<1> DEFINE n == chain[r].note
           q == req[r]
           k == Len(invoices) + 1
           st == [stage |-> "sold", note |-> n, invoice |-> k]
<1>1. /\ CommitInvoice(r) /\ Enters(r, st)
      /\ chain[r] # NoChain /\ chain[r].stage = "sale"
  BY DEF CommitLegTwo
<1>2. Holding(chain[r]) /\ Selling(chain[r])
  BY <1>1 DEF Holding, Selling
<1>3. n \in 1..Len(notes) /\ SaleOf(q, n, notes)
  BY <1>2 DEF ExchangeInv, Fits
<1>4. n \in Nat /\ q.note = n /\ n # 0 /\ n \in 1..Len(notes')
  BY <1>3, StoreGrows DEF SaleOf
<1>5. /\ notes' = [notes EXCEPT ![n] = Redeem(notes[n], q.applied)]
      /\ q.applied > 0 /\ q.applied <= notes[n].remaining
      /\ notes[n].remaining <= notes[n].total
  <2>1. q.applied > 0
    BY <1>1, <1>4 DEF NoteInv, SpendsSomething, CommitInvoice
  <2>2. notes[n].remaining >= q.applied
    BY <1>1, <1>4 DEF CommitInvoice, NoteGuard
  <2>3. notes[n].remaining <= notes[n].total
    BY <1>3 DEF NoteInv, NoteBalanceCoherent
  <2>4. notes[n].remaining \in Nat /\ q.applied \in Nat
    <3>1. notes[n] \in CreditNote /\ q \in InvoiceReq
      BY <1>1, <1>3, RequestKind DEF TypeOK, CommitInvoice
    <3> QED
      BY <3>1, BillingAssumption DEF CreditNote, InvoiceReq
  <2> QED
    BY <1>1, <1>4, <2>1, <2>2, <2>3, <2>4, RedeemStep
<1>6. /\ notes'[n].remaining = notes[n].remaining - q.applied
      /\ notes'[n].total = notes[n].total
      /\ notes'[n].party = notes[n].party
  <2>1. notes[n] \in CreditNote
    BY <1>3 DEF TypeOK
  <2>2. LET row == Redeem(notes[n], q.applied)
        IN  /\ row.remaining = notes[n].remaining - q.applied
            /\ row.total = notes[n].total
            /\ row.party = notes[n].party
    BY <2>1 DEF Redeem, CreditNote
  <2>3. notes'[n] = Redeem(notes[n], q.applied)
    BY <1>3, <1>5 DEF TypeOK
  <2> QED
    BY <2>2, <2>3
<1>7. /\ k \in 1..Len(invoices') /\ k \in Nat
      /\ invoices'[k] = NewInvoice(q)
  BY <1>1 DEF CommitInvoice, TypeOK
<1>8. /\ invoices'[k].note = n
      /\ invoices'[k].applied = q.applied
      /\ invoices'[k].cart = q.cart
      /\ notes[n].party # NoParty => invoices'[k].party = notes[n].party
  <2>1. /\ NewInvoice(q).note = q.note /\ NewInvoice(q).applied = q.applied
        /\ NewInvoice(q).cart = q.cart /\ NewInvoice(q).party = ResolvedParty(q)
    BY DEF NewInvoice
  <2> QED
    BY <1>3, <1>4, <1>7, <2>1 DEF ResolvedParty, SaleOf
<1>9. notes[n].remaining \in Nat /\ notes[n].total \in Nat /\ q.applied \in Nat
  <2>1. notes[n] \in CreditNote /\ q \in InvoiceReq
    BY <1>1, <1>3, RequestKind DEF TypeOK, CommitInvoice
  <2> QED
    BY <2>1, BillingAssumption DEF CreditNote, InvoiceReq
<1>10. /\ st \in Chain /\ Holding(st) /\ ~ Selling(st)
       /\ st.note = n /\ st.invoice = k
  BY <1>4, <1>7, ExchangesAssumption DEF Chain, Holding, Selling
<1>11. \A s \in Reqs : s = r \/ req'[s] = req[s]
  BY <1>1, OtherRequests
<1> HIDE DEF st, n, k, q
<1>12. invoices'[k].applied + notes'[n].remaining <= notes'[n].total
  BY <1>5, <1>6, <1>8, <1>9
<1>13. Linked(st, invoices', notes')
  BY <1>3, <1>4, <1>5, <1>6, <1>7, <1>8, <1>10, <1>12 DEF Linked, SaleOf
<1>14. Fits(st, req'[r], invoices', notes')
  BY <1>4, <1>10, <1>13 DEF Fits
<1> QED
  BY <1>1, <1>2, <1>10, <1>11, <1>14, StageEntered DEF n, k

(* The two legs of a request become a recorded exchange.                   *)
LEMMA ExchangeRecorded ==
    ASSUME TypeOK, ExchangeInv, NEW r \in Reqs, RecordExchange(r)
    PROVE  ExchangeInv'
<1> DEFINE row == [note |-> chain[r].note, invoice |-> chain[r].invoice]
           k == Len(exchanges)
<1>1. /\ exchanges' = Append(exchanges, row)
      /\ chain' = [chain EXCEPT ![r] = NoChain]
      /\ invoices' = invoices /\ notes' = notes /\ req' = req
      /\ Sold(chain[r]) /\ Holding(chain[r])
  BY DEF RecordExchange, vars, tables, Sold, Holding
<1>2. Linked(chain[r], invoices, notes)
  BY <1>1 DEF ExchangeInv, Fits
<1>3. /\ row.note = chain[r].note /\ row.invoice = chain[r].invoice
      /\ row \in [note : Nat, invoice : Nat]
  BY <1>2 DEF Linked
<1>4. Linked(row, invoices, notes)
  BY <1>2, <1>3 DEF Linked
<1> HIDE DEF row
<1>5. /\ k \in Nat /\ Len(exchanges') = k + 1
      /\ \A i \in 1..k : exchanges'[i] = exchanges[i]
      /\ exchanges'[k + 1] = row
      /\ exchanges' \in Seq([note : Nat, invoice : Nat])
  BY <1>1, <1>3 DEF ExchangeInv
<1> HIDE DEF k
<1>6. /\ chain' \in [Reqs -> Chain \cup {NoChain}]
      /\ \A s \in Reqs : chain'[s] = IF s = r THEN NoChain ELSE chain[s]
      /\ ~ Holding(NoChain) /\ ~ Selling(NoChain) /\ ~ Sold(NoChain)
  BY <1>1 DEF ExchangeInv, Holding, Selling, Sold
<1>7. \A s \in Reqs : Fits(chain'[s], req'[s], invoices', notes')
  BY <1>1, <1>6 DEF ExchangeInv, Fits
<1>8. \A i \in 1..(k + 1) : Linked(exchanges'[i], invoices', notes')
  BY <1>1, <1>4, <1>5 DEF ExchangeInv, k
<1>9. \A i \in 1..k : exchanges[i].note # row.note /\ exchanges[i].invoice # row.invoice
  BY <1>1, <1>3 DEF ExchangeInv, OwnNotes, OwnInvoices, k
<1>10. OwnNotes'
  <2>1. \A s \in Reqs, i \in 1..(k + 1) :
           Holding(chain'[s]) => chain'[s].note # exchanges'[i].note
    BY <1>1, <1>3, <1>5, <1>6 DEF ExchangeInv, OwnNotes, k
  <2>2. \A i, j \in 1..(k + 1) : exchanges'[i].note = exchanges'[j].note => i = j
    <3>1. \A i, j \in 1..k : exchanges[i].note = exchanges[j].note => i = j
      BY DEF ExchangeInv, OwnNotes, k
    <3>2. \A i \in 1..(k + 1) : i \in 1..k \/ i = k + 1
      BY <1>5
    <3> QED
      BY <1>5, <1>9, <3>1, <3>2
  <2> QED
    BY <1>5, <1>6, <2>1, <2>2 DEF ExchangeInv, OwnNotes
<1>11. OwnInvoices'
  <2>1. \A s \in Reqs, i \in 1..(k + 1) :
           Sold(chain'[s]) => chain'[s].invoice # exchanges'[i].invoice
    BY <1>1, <1>3, <1>5, <1>6 DEF ExchangeInv, OwnInvoices, k
  <2>2. \A i, j \in 1..(k + 1) : exchanges'[i].invoice = exchanges'[j].invoice => i = j
    <3>1. \A i, j \in 1..k : exchanges[i].invoice = exchanges[j].invoice => i = j
      BY DEF ExchangeInv, OwnInvoices, k
    <3>2. \A i \in 1..(k + 1) : i \in 1..k \/ i = k + 1
      BY <1>5
    <3> QED
      BY <1>5, <1>9, <3>1, <3>2
  <2> QED
    BY <1>5, <1>6, <2>1, <2>2 DEF ExchangeInv, OwnInvoices
<1> QED
  BY <1>5, <1>6, <1>7, <1>8, <1>10, <1>11 DEF ExchangeInv

LEMMA ExchangeStep ==
    ASSUME TypeOK, TypeOK', NoteInv, ExchangeInv, [ExchangeNext]_allVars
    PROVE  ExchangeInv'
<1>1. [Next]_vars
  BY ExchangeStepIsStoreStep
<1>2. ~ Holding(NoChain) /\ NoChain \in Chain \cup {NoChain}
      /\ Fits(NoChain, Idle, invoices', notes') /\ ~ Sold(NoChain)
      /\ \A q : Fits(NoChain, q, invoices', notes')
  BY DEF Holding, Selling, Sold, Fits
<1>3. CASE PlainStep
  <2>1. ASSUME NEW r \in Reqs, chain[r] = NoChain,
               \/ SubmitInvoice(r) \/ CommitInvoice(r) \/ BeginReturn(r)
               \/ CommitReturn(r) \/ RetryReturn(r) \/ Rollback(r)
        PROVE  \A s \in Reqs : req'[s] = req[s] \/ ~ Holding(chain[s])
    BY <1>2, <2>1, OtherRequests
  <2>2. \/ UNCHANGED req
        \/ \E r \in Reqs :
             /\ chain[r] = NoChain
             /\ \/ SubmitInvoice(r) \/ CommitInvoice(r) \/ BeginReturn(r)
                \/ CommitReturn(r) \/ RetryReturn(r) \/ Rollback(r)
    BY <1>3 DEF PlainStep, ConvertEstimate, WalkInReturn
  <2>3. UNCHANGED exchangeVars
    BY <1>3 DEF PlainStep
  <2> QED
    BY <1>1, <2>1, <2>2, <2>3, StagesKept
<1>4. CASE UNCHANGED allVars
  BY <1>1, <1>4, StagesKept DEF allVars, vars
<1>5. ASSUME NEW r \in Reqs, BeginExchange(r)
      PROVE  ExchangeInv'
  <2> DEFINE st == [stage |-> "return"]
  <2>1. st \in Chain /\ ~ Holding(st) /\ ~ Sold(st) /\ ~ Selling(st)
    BY DEF Chain, Holding, Sold, Selling
  <2>2. Enters(r, st) /\ BeginReturn(r)
    BY <1>5 DEF BeginExchange
  <2> HIDE DEF st
  <2> QED
    BY <1>1, <2>1, <2>2, OtherRequests, StageEntered DEF Fits
<1>6. ASSUME NEW r \in Reqs, CommitLegOne(r)
      PROVE  ExchangeInv'
  <2>1. CASE RetryReturn(r) /\ UNCHANGED exchangeVars
    <3>1. ~ Holding(chain[r])
      BY <1>6 DEF CommitLegOne, Holding
    <3> QED
      BY <1>1, <2>1, <3>1, OtherRequests, StagesKept
  <2>2. CASE CommitReturn(r) /\ Returned(r)
    <3>1. \E f \in ReturnForms, m \in RefundModes, c \in Customers : PostReturn(f, m, c)
      BY <2>2, ReturnRequest DEF CommitReturn
    <3>2. \A s \in Reqs : s = r \/ req'[s] = req[s]
      BY <2>2, OtherRequests
    <3> QED
      BY <1>1, <2>2, <3>1, <3>2, LegOneStep
  <2> QED
    BY <1>6, <2>1, <2>2 DEF CommitLegOne
<1>7. ASSUME NEW r \in Reqs, WalkInExchange(r)
      PROVE  ExchangeInv'
  <2>1. \E f \in ReturnForms, m \in RefundModes, c \in Customers : PostReturn(f, m, c)
    BY <1>7, ExchangesAssumption, ReturnsAssumption DEF WalkInExchange, WalkInReturn
  <2>2. Returned(r) /\ UNCHANGED req
    BY <1>7 DEF WalkInExchange, WalkInReturn
  <2> QED
    BY <1>1, <2>1, <2>2, LegOneStep
<1>8. ASSUME NEW r \in Reqs, DropExchange(r)
      PROVE  ExchangeInv'
  <2>1. Enters(r, NoChain) /\ \A s \in Reqs : s = r \/ req'[s] = req[s]
    BY <1>8, OtherRequests DEF DropExchange, vars
  <2> QED
    BY <1>1, <1>2, <2>1, StageEntered
<1> QED
  BY <1>1, <1>3, <1>4, <1>5, <1>6, <1>7, <1>8, LegTwoSubmitted, LegTwoCommitted,
     ExchangeRecorded DEF ExchangeNext

(* Every exchange that is recorded links a return and a sale of its own    *)
(* that belong together, although its note was anybody's to spend between  *)
(* the two legs (exchanges.js, POST of an exchange).                       *)
THEOREM ExchangesLinked == ExchangeSpec => []ExchangesLinkTheirLegs
<1>1. ExchangeInit => ExchangeInv
  <2> SUFFICES ASSUME ExchangeInit
               PROVE  ExchangeInv
    OBVIOUS
  <2>1. /\ chain = [r \in Reqs |-> NoChain]
        /\ exchanges = <<>> /\ Len(exchanges) = 0
        /\ ~ Holding(NoChain) /\ ~ Selling(NoChain) /\ ~ Sold(NoChain)
    BY DEF ExchangeInit, Holding, Selling, Sold
  <2> QED
    BY <2>1 DEF ExchangeInv, Fits, OwnNotes, OwnInvoices
<1>2. TypeOK /\ TypeOK' /\ NoteInv /\ ExchangeInv /\ [ExchangeNext]_allVars => ExchangeInv'
  BY ExchangeStep
<1>3. ExchangeSpec => [](TypeOK /\ NoteInv)
  BY ExchangesAreStore, TypeCorrect, NoteInvariant, PTL
<1> QED
  BY <1>1, <1>2, <1>3, LegsLinked, PTL DEF ExchangeSpec
=============================================================================
