--------------------------- MODULE ProcurementProofs ---------------------------
(***************************************************************************)
(* Theorems about procurement, for every number of parts and of concurrent *)
(* requests and every set of carts, receipts and amounts.                  *)
(***************************************************************************)
EXTENDS Procurement, Sums, TLAPS

LEMMA QuantityArithmetic ==
    /\ Nothing \in Quantities
    /\ \A a, b \in Quantities : Plus(a, b) \in Quantities
    /\ \A p \in Parts, n \in Nat : Only(p, n) \in Quantities
BY DEF Nothing, Plus, Only, Quantities

LEMMA TransitionsType ==
    /\ OrderStatuses =
         {"DRAFT", "APPROVED", "SENT", "PARTIAL", "RECEIVED", "CANCELLED"}
    /\ \A s \in OrderStatuses : VALID_TRANSITIONS[s] \subseteq OrderStatuses
BY DEF OrderStatuses, VALID_TRANSITIONS

LEMMA DraftType ==
    ASSUME NEW cart \in Carts
    PROVE  Draft(cart) \in Order
BY QuantityArithmetic, TransitionsType DEF Draft, Order

(* A request's own record, once it is known which handler serves it.       *)
LEMMA RequestKind ==
    ASSUME NEW q \in Requests
    PROVE  /\ q.op = "edit" => q.cart \in Carts
           /\ q.op = "status" => /\ q.to \in OrderStatuses
                                 /\ q.receipt \in Quantities
           /\ q.op = "extract" => q.number \in InvoiceNumbers
           /\ q.op = "import" => q \in [op : {"import"}, bill : Nat, cart : Carts,
                                        todo : SUBSET Parts, imported : BOOLEAN]
           /\ q.op = "return" => q \in [op : {"return"}, source : Nat, qty : Nat, again : Nat,
                                        party : BOOLEAN, resolution : Resolutions,
                                        seen : Nat, attempt : {1, 2}]
           /\ q.op = "resolve" => q.to \in Resolutions
           /\ q.op = "apply" => q.amount \in Nat
<1>1. CASE q = Idle
  BY <1>1 DEF Idle
<1>2. CASE q \in OrderReq
  BY <1>2, QuantityArithmetic, OrdersAssumption DEF OrderReq
<1>3. CASE q \in BillReq
  BY <1>3 DEF BillReq
<1>4. CASE q \in ReturnReq
  BY <1>4, ReturnsAssumption DEF ReturnReq
<1> QED
  BY <1>1, <1>2, <1>3, <1>4 DEF Requests

(* A step that only gives a client another request.                        *)
LEMMA TypeRequest ==
    ASSUME TypeOK, NEW c \in Clients, NEW q \in Requests, RowsExist(q),
           req' = [req EXCEPT ![c] = q], UNCHANGED tables
    PROVE  TypeOK'
BY DEF TypeOK, RowsExist, tables, orderTables, billTables, returnTables

(* The requests' part of TypeOK when rows are added and a request is done. *)
LEMMA TypeDone ==
    ASSUME TypeOK, NEW c \in Clients, Done(c),
           Len(orders') >= Len(orders), Len(orders') \in Nat,
           Len(bills') >= Len(bills), Len(bills') \in Nat,
           Len(sources') >= Len(sources), Len(sources') \in Nat,
           Len(returns') >= Len(returns), Len(returns') \in Nat
    PROVE  /\ req' \in [Clients -> Requests]
           /\ \A d \in Clients : RowsExist(req[d])'
<1>1. req' \in [Clients -> Requests]
  BY DEF TypeOK, Done, Requests
<1>2. ASSUME NEW d \in Clients PROVE RowsExist(req[d])'
  <2>1. Len(orders) \in Nat /\ Len(bills) \in Nat /\ Len(sources) \in Nat /\ Len(returns) \in Nat
    BY DEF TypeOK
  <2>2. CASE d = c
    BY <2>2 DEF RowsExist, Done, Idle, TypeOK
  <2>3. CASE d # c
    <3>1. req'[d] = req[d] /\ RowsExist(req[d])
      BY <2>3 DEF Done, TypeOK
    <3> QED
      BY <2>1, <3>1 DEF RowsExist
  <2> QED
    BY <2>2, <2>3
<1> QED
  BY <1>1, <1>2

(* The same when the requests stay as they are.                            *)
LEMMA TypeKept ==
    ASSUME TypeOK, UNCHANGED req,
           Len(orders') >= Len(orders), Len(orders') \in Nat,
           UNCHANGED <<bills, sources, returns>>
    PROVE  /\ req' \in [Clients -> Requests]
           /\ \A d \in Clients : RowsExist(req[d])'
<1>1. Len(orders) \in Nat
  BY DEF TypeOK
<1> QED
  BY <1>1 DEF TypeOK, RowsExist

-----------------------------------------------------------------------------
(* TypeOK is inductive as it stands.                                       *)
LEMMA TypeInit == Init => TypeOK
<1> SUFFICES ASSUME Init PROVE TypeOK
  OBVIOUS
<1>1. moved \in [MoveTypes -> Quantities] /\ stockQty \in Quantities
  BY QuantityArithmetic DEF Init
<1>2. /\ orders \in Seq(Order) /\ bills \in Seq(Bill)
      /\ sources \in Seq(Source) /\ returns \in Seq(PurchaseReturn)
      /\ Len(returns) = 0
  BY DEF Init
<1>3. req \in [Clients -> Requests] /\ \A c \in Clients : RowsExist(req[c])
  BY DEF Init, Requests, Idle, RowsExist
<1>4. owed \in Int /\ applied \in Nat
  BY DEF Init
<1> QED
  BY <1>1, <1>2, <1>3, <1>4 DEF TypeOK

LEMMA TypeNewOrder ==
    ASSUME TypeOK, NEW cart \in Carts, orders' = Append(orders, Draft(cart)),
           UNCHANGED <<stockQty, moved, billTables, returnTables, req>>
    PROVE  TypeOK'
<1>1. orders' \in Seq(Order) /\ Len(orders') = Len(orders) + 1
  BY DraftType DEF TypeOK
<1>2. Len(orders') \in Nat /\ Len(orders') >= Len(orders)
  BY <1>1 DEF TypeOK
<1>3. UNCHANGED <<bills, sources, returns>>
  BY DEF billTables, returnTables
<1>4. req' \in [Clients -> Requests] /\ \A d \in Clients : RowsExist(req[d])'
  BY <1>2, <1>3, TypeKept
<1> QED
  BY <1>1, <1>4 DEF TypeOK, billTables, returnTables

LEMMA TypeCreateOrder ==
    ASSUME TypeOK, NEW cart \in Carts, CreateOrder(cart)
    PROVE  TypeOK'
BY TypeNewOrder DEF CreateOrder

LEMMA TypeCloneOrder ==
    ASSUME TypeOK, NEW o \in 1..Len(orders), CloneOrder(o)
    PROVE  TypeOK'
<1>1. orders[o] \in Order
  BY DEF TypeOK
<1>2. orders[o].ordered \in Carts
  BY <1>1 DEF Order
<1> QED
  BY <1>2, TypeNewOrder DEF CloneOrder

LEMMA TypeBeginEdit ==
    ASSUME TypeOK, NEW c \in Clients, NEW o \in 1..Len(orders), BeginEdit(c, o)
    PROVE  TypeOK'
<1>1. PICK cart \in Carts :
        req' = [req EXCEPT ![c] = [op |-> "edit", order |-> o, cart |-> cart]]
  BY DEF BeginEdit
<1> DEFINE q == [op |-> "edit", order |-> o, cart |-> cart]
<1>2. q \in Requests
  BY DEF Requests, OrderReq
<1>3. RowsExist(q)
  BY DEF RowsExist
<1>4. req' = [req EXCEPT ![c] = q] /\ UNCHANGED tables
  BY <1>1 DEF BeginEdit
<1> HIDE DEF q
<1> QED
  BY <1>2, <1>3, <1>4, TypeRequest

LEMMA TypeBeginStatus ==
    ASSUME TypeOK, NEW c \in Clients, NEW o \in 1..Len(orders), BeginStatus(c, o)
    PROVE  TypeOK'
<1>1. PICK to \in VALID_TRANSITIONS[orders[o].status], receipt \in Receipts \cup {Nothing} :
        req' = [req EXCEPT ![c] =
                  [op |-> "status", order |-> o, edition |-> orders[o].edition,
                   to |-> to, receipt |-> receipt]]
  BY DEF BeginStatus
<1> DEFINE q == [op |-> "status", order |-> o, edition |-> orders[o].edition,
                 to |-> to, receipt |-> receipt]
<1>2. q \in Requests
  <2>1. orders[o] \in Order
    BY DEF TypeOK
  <2>2. orders[o].status \in OrderStatuses /\ orders[o].edition \in Nat
    BY <2>1 DEF Order
  <2>3. to \in OrderStatuses
    BY <2>2, TransitionsType
  <2>4. q \in OrderReq
    BY <2>2, <2>3 DEF OrderReq
  <2> QED
    BY <2>4 DEF Requests
<1>3. RowsExist(q)
  BY DEF RowsExist
<1>4. req' = [req EXCEPT ![c] = q] /\ UNCHANGED tables
  BY <1>1 DEF BeginStatus
<1> HIDE DEF q
<1> QED
  BY <1>2, <1>3, <1>4, TypeRequest

LEMMA TypeBeginSend ==
    ASSUME TypeOK, NEW c \in Clients, NEW o \in 1..Len(orders), BeginSend(c, o)
    PROVE  TypeOK'
<1> DEFINE q == [op |-> "send", order |-> o]
<1>1. q \in Requests
  BY DEF Requests, OrderReq
<1>2. RowsExist(q)
  BY DEF RowsExist
<1>3. req' = [req EXCEPT ![c] = q] /\ UNCHANGED tables
  BY DEF BeginSend
<1> HIDE DEF q
<1> QED
  BY <1>1, <1>2, <1>3, TypeRequest

(* One order is replaced by another and the request is done.               *)
LEMMA TypeOrderStep ==
    ASSUME TypeOK, NEW c \in Clients, Done(c),
           NEW o \in 1..Len(orders), NEW row \in Order,
           orders' = [orders EXCEPT ![o] = row],
           stockQty' \in Quantities, moved' \in [MoveTypes -> Quantities],
           UNCHANGED <<billTables, returnTables>>
    PROVE  TypeOK'
<1>1. orders' \in Seq(Order) /\ Len(orders') = Len(orders)
  BY DEF TypeOK
<1>2. UNCHANGED <<bills, sources, returns, owed, applied>>
  BY DEF billTables, returnTables
<1>3. Len(orders') \in Nat /\ Len(bills) \in Nat /\ Len(sources) \in Nat /\ Len(returns) \in Nat
  BY <1>1 DEF TypeOK
<1>4. req' \in [Clients -> Requests] /\ \A d \in Clients : RowsExist(req[d])'
  BY <1>1, <1>2, <1>3, TypeDone
<1> QED
  BY <1>1, <1>2, <1>4 DEF TypeOK

LEMMA EditedType ==
    ASSUME NEW r \in Order, NEW cart \in Carts
    PROVE  [r EXCEPT !.edition = @ + 1, !.ordered = cart, !.received = Nothing] \in Order
<1> DEFINE r1 == [r EXCEPT !.edition = @ + 1]
           r2 == [r1 EXCEPT !.ordered = cart]
<1>1. r1 \in Order
  BY DEF Order
<1>2. r2 \in Order
  <2> HIDE DEF r1
  <2> QED
    BY <1>1 DEF Order
<1>3. [r2 EXCEPT !.received = Nothing] \in Order
  <2> HIDE DEF r2
  <2> QED
    BY <1>2, QuantityArithmetic DEF Order
<1> QED
  BY <1>3

LEMMA TypeCommitEdit ==
    ASSUME TypeOK, NEW c \in Clients, CommitEdit(c)
    PROVE  TypeOK'
<1> DEFINE o == req[c].order
           row == [orders[o] EXCEPT !.edition = @ + 1, !.ordered = req[c].cart,
                                    !.received = Nothing]
<1>1. o \in 1..Len(orders) /\ req[c].cart \in Carts
  BY RequestKind DEF CommitEdit, TypeOK, RowsExist
<1>2. orders[o] \in Order
  BY <1>1 DEF TypeOK
<1>3. row \in Order
  BY <1>1, <1>2, EditedType
<1>4. orders' = [orders EXCEPT ![o] = row]
  BY <1>1 DEF CommitEdit, TypeOK
<1>5. /\ Done(c) /\ stockQty' \in Quantities /\ moved' \in [MoveTypes -> Quantities]
      /\ UNCHANGED <<billTables, returnTables>>
  BY DEF CommitEdit, TypeOK
<1> HIDE DEF row, o
<1> QED
  BY <1>1, <1>3, <1>4, <1>5, TypeOrderStep

(* Stock and its movements after goods came in.                            *)
LEMMA TypeReceive ==
    ASSUME TypeOK, NEW qty \in Quantities, Receive(qty)
    PROVE  stockQty' \in Quantities /\ moved' \in [MoveTypes -> Quantities]
<1>1. /\ stockQty \in Quantities
      /\ moved \in [MoveTypes -> Quantities]
      /\ "PURCHASE" \in MoveTypes
  BY DEF TypeOK, MoveTypes
<1>2. Plus(stockQty, qty) \in Quantities /\ Plus(moved["PURCHASE"], qty) \in Quantities
  BY <1>1, QuantityArithmetic
<1>3. moved' = [moved EXCEPT !["PURCHASE"] = Plus(moved["PURCHASE"], qty)]
  BY DEF Receive
<1> QED
  BY <1>1, <1>2, <1>3 DEF Receive

(* What the transaction of a status change does to the order.              *)
LEMMA CommitStatusRow ==
    ASSUME TypeOK, NEW c \in Clients, CommitStatus(c)
    PROVE  /\ req[c].order \in 1..Len(orders)
           /\ orders[req[c].order] \in Order
           /\ req[c].to \in OrderStatuses
           /\ req[c].receipt \in Quantities
           /\ orders' = [orders EXCEPT ![req[c].order] =
                           [orders[req[c].order] EXCEPT !.status = req[c].to,
                              !.received = Plus(@, req[c].receipt)]]
<1>1. /\ req[c].order \in 1..Len(orders)
      /\ req[c].to \in OrderStatuses
      /\ req[c].receipt \in Quantities
  BY RequestKind DEF CommitStatus, TypeOK, RowsExist
<1>2. orders[req[c].order] \in Order
  BY <1>1 DEF TypeOK
<1>3. orders' = [orders EXCEPT ![req[c].order] =
                   [orders[req[c].order] EXCEPT !.status = req[c].to,
                      !.received = Plus(@, req[c].receipt)]]
  BY <1>1 DEF CommitStatus, TypeOK
<1> QED
  BY <1>1, <1>2, <1>3

LEMMA TypeCommitStatus ==
    ASSUME TypeOK, NEW c \in Clients, CommitStatus(c)
    PROVE  TypeOK'
<1> DEFINE o == req[c].order
           units == Plus(orders[o].received, req[c].receipt)
           row == [orders[o] EXCEPT !.status = req[c].to, !.received = units]
<1>1. /\ o \in 1..Len(orders) /\ orders[o] \in Order
      /\ req[c].to \in OrderStatuses /\ req[c].receipt \in Quantities
      /\ orders' = [orders EXCEPT ![o] = row]
  BY CommitStatusRow
<1>2. units \in Quantities
  BY <1>1, QuantityArithmetic DEF Order
<1>3. row \in Order
  <2> HIDE DEF units
  <2> QED
    BY <1>1, <1>2 DEF Order
<1>4. stockQty' \in Quantities /\ moved' \in [MoveTypes -> Quantities]
  BY <1>1, TypeReceive DEF CommitStatus
<1>5. Done(c) /\ UNCHANGED <<billTables, returnTables>>
  BY DEF CommitStatus
<1> HIDE DEF row, o
<1> QED
  BY <1>1, <1>3, <1>4, <1>5, TypeOrderStep

LEMMA TypeFinishSend ==
    ASSUME TypeOK, NEW c \in Clients, FinishSend(c)
    PROVE  TypeOK'
<1> DEFINE o == req[c].order
           row == [orders[o] EXCEPT !.status = "SENT"]
<1>1. o \in 1..Len(orders)
  BY DEF FinishSend, TypeOK, RowsExist
<1>2. orders[o] \in Order
  BY <1>1 DEF TypeOK
<1>3. row \in Order
  BY <1>2, TransitionsType DEF Order
<1>4. orders' = [orders EXCEPT ![o] = row]
  BY <1>1 DEF FinishSend, TypeOK
<1>5. /\ Done(c) /\ stockQty' \in Quantities /\ moved' \in [MoveTypes -> Quantities]
      /\ UNCHANGED <<billTables, returnTables>>
  BY DEF FinishSend, TypeOK
<1> HIDE DEF row, o
<1> QED
  BY <1>1, <1>3, <1>4, <1>5, TypeOrderStep

LEMMA TypeBeginExtract ==
    ASSUME TypeOK, NEW c \in Clients, BeginExtract(c)
    PROVE  TypeOK'
<1>1. PICK n \in InvoiceNumbers :
        req' = [req EXCEPT ![c] = [op |-> "extract", number |-> n]]
  BY DEF BeginExtract
<1> DEFINE q == [op |-> "extract", number |-> n]
<1>2. q \in Requests /\ RowsExist(q)
  BY DEF Requests, BillReq, RowsExist
<1>3. req' = [req EXCEPT ![c] = q] /\ UNCHANGED tables
  BY <1>1 DEF BeginExtract
<1> HIDE DEF q
<1> QED
  BY <1>2, <1>3, TypeRequest

LEMMA TypeCreateBill ==
    ASSUME TypeOK, NEW c \in Clients, CreateBill(c)
    PROVE  TypeOK'
<1>1. [number |-> req[c].number, status |-> "PENDING_REVIEW", lostCommit |-> FALSE] \in Bill
  BY RequestKind DEF CreateBill, TypeOK, Bill
<1>2. bills' \in Seq(Bill) /\ Len(bills') = Len(bills) + 1
  BY <1>1 DEF CreateBill, TypeOK
<1>3. UNCHANGED <<stockQty, moved, orders, sources, returns, owed, applied>>
  BY DEF CreateBill, orderTables, returnTables
<1>4. Len(bills) \in Nat /\ Len(orders) \in Nat /\ Len(sources) \in Nat /\ Len(returns) \in Nat
  BY DEF TypeOK
<1>5. req' \in [Clients -> Requests] /\ \A d \in Clients : RowsExist(req[d])'
  BY <1>2, <1>3, <1>4, TypeDone DEF CreateBill
<1> QED
  BY <1>2, <1>3, <1>5 DEF TypeOK

LEMMA TypeBeginImport ==
    ASSUME TypeOK, NEW c \in Clients, NEW b \in 1..Len(bills), BeginImport(c, b)
    PROVE  TypeOK'
<1>1. PICK cart \in Carts :
        req' = [req EXCEPT ![c] =
                  [op |-> "import", bill |-> b, cart |-> cart,
                   todo |-> {p \in Parts : cart[p] > 0}, imported |-> FALSE]]
  BY DEF BeginImport
<1> DEFINE q == [op |-> "import", bill |-> b, cart |-> cart,
                 todo |-> {p \in Parts : cart[p] > 0}, imported |-> FALSE]
<1>2. q \in Requests /\ RowsExist(q)
  BY DEF Requests, BillReq, RowsExist
<1>3. req' = [req EXCEPT ![c] = q] /\ UNCHANGED tables
  BY <1>1 DEF BeginImport
<1> HIDE DEF q
<1> QED
  BY <1>2, <1>3, TypeRequest

(* The request of an import, and the movement of one of its items.         *)
LEMMA ImportRequest ==
    ASSUME TypeOK, NEW c \in Clients, req[c].op = "import"
    PROVE  /\ req[c] \in [op : {"import"}, bill : Nat, cart : Carts,
                          todo : SUBSET Parts, imported : BOOLEAN]
           /\ req[c].bill \in 1..Len(bills)
           /\ bills[req[c].bill] \in Bill
           /\ \A p \in Parts : /\ req[c].cart[p] \in Nat
                               /\ NewSource(req[c], p) \in Source
<1>1. req[c] \in [op : {"import"}, bill : Nat, cart : Carts,
                  todo : SUBSET Parts, imported : BOOLEAN]
  BY RequestKind DEF TypeOK
<1>2. req[c].bill \in 1..Len(bills)
  BY DEF TypeOK, RowsExist
<1>3. bills[req[c].bill] \in Bill
  BY <1>2 DEF TypeOK
<1>4. req[c].cart \in Quantities
  BY <1>1, PurchasesAssumption
<1>5. ASSUME NEW p \in Parts PROVE req[c].cart[p] \in Nat /\ NewSource(req[c], p) \in Source
  <2>1. req[c].cart[p] \in Nat
    BY <1>4 DEF Quantities
  <2>2. bills[req[c].bill].number \in InvoiceNumbers
    BY <1>3 DEF Bill
  <2> QED
    BY <2>1, <2>2 DEF NewSource, Source
<1> QED
  BY <1>1, <1>2, <1>3, <1>5

LEMMA TypeImportItem ==
    ASSUME TypeOK, NEW c \in Clients, NEW p \in Parts, ImportItem(c, p)
    PROVE  TypeOK'
<1>1. req[c].op = "import"
  BY DEF ImportItem
<1>2. stockQty' \in Quantities /\ moved' \in [MoveTypes -> Quantities]
  <2>1. Only(p, req[c].cart[p]) \in Quantities
    BY <1>1, ImportRequest, QuantityArithmetic
  <2> QED
    BY <2>1, TypeReceive DEF ImportItem
<1>3. sources' \in Seq(Source) /\ Len(sources') = Len(sources) + 1
  BY <1>1, ImportRequest DEF ImportItem, TypeOK
<1> DEFINE q == [req[c] EXCEPT !.todo = @ \ {p}, !.imported = TRUE]
<1>4. /\ q \in [op : {"import"}, bill : Nat, cart : Carts,
                todo : SUBSET Parts, imported : BOOLEAN]
      /\ q.bill = req[c].bill
  BY <1>1, ImportRequest
<1>5. req' = [req EXCEPT ![c] = q]
  BY DEF ImportItem, TypeOK
<1> HIDE DEF q
<1>6. q \in Requests /\ q.op = "import"
  BY <1>4 DEF Requests, BillReq
<1>7. UNCHANGED <<orders, bills, returns, owed, applied>>
  BY DEF ImportItem, orderTables, returnTables
<1>8. q.bill \in 1..Len(bills)
  BY <1>1, <1>4, ImportRequest
<1>9. req' \in [Clients -> Requests]
  BY <1>5, <1>6 DEF TypeOK
<1>10. ASSUME NEW d \in Clients PROVE RowsExist(req[d])'
  <2>1. CASE d = c
    BY <1>5, <1>6, <1>7, <1>8, <2>1 DEF RowsExist, TypeOK
  <2>2. CASE d # c
    <3>1. req'[d] = req[d] /\ RowsExist(req[d])
      BY <1>5, <2>2 DEF TypeOK
    <3>2. Len(sources) \in Nat
      BY DEF TypeOK
    <3> QED
      BY <1>3, <1>7, <3>1, <3>2 DEF RowsExist
  <2> QED
    BY <2>1, <2>2
<1>11. \A n \in 1..Len(returns') : returns'[n].source \in 1..Len(sources')
  <2>1. Len(sources) \in Nat
    BY DEF TypeOK
  <2> QED
    BY <1>3, <1>7, <2>1 DEF TypeOK
<1> QED
  BY <1>2, <1>3, <1>7, <1>9, <1>10, <1>11 DEF TypeOK

LEMMA TypeSkipItem ==
    ASSUME TypeOK, NEW c \in Clients, NEW p \in Parts, SkipItem(c, p)
    PROVE  TypeOK'
<1> DEFINE q == [req[c] EXCEPT !.todo = @ \ {p}]
<1>1. req[c].op = "import"
  BY DEF SkipItem
<1>2. /\ q \in [op : {"import"}, bill : Nat, cart : Carts,
                todo : SUBSET Parts, imported : BOOLEAN]
      /\ q.bill = req[c].bill
  BY <1>1, ImportRequest
<1>3. req' = [req EXCEPT ![c] = q] /\ UNCHANGED tables
  BY DEF SkipItem, TypeOK
<1> HIDE DEF q
<1>4. q \in Requests /\ q.op = "import"
  BY <1>2 DEF Requests, BillReq
<1>5. RowsExist(q)
  BY <1>1, <1>2, <1>4, ImportRequest DEF RowsExist
<1> QED
  BY <1>3, <1>4, <1>5, TypeRequest

LEMMA TypeLoseItem ==
    ASSUME TypeOK, NEW c \in Clients, NEW p \in Parts, LoseItem(c, p)
    PROVE  TypeOK'
<1> DEFINE q == [req[c] EXCEPT !.todo = @ \ {p}, !.imported = TRUE]
           b == req[c].bill
           row == [bills[b] EXCEPT !.lostCommit = TRUE]
<1>1. req[c].op = "import"
  BY DEF LoseItem
<1>2. /\ q \in [op : {"import"}, bill : Nat, cart : Carts,
                todo : SUBSET Parts, imported : BOOLEAN]
      /\ q.bill = b
      /\ b \in 1..Len(bills) /\ bills[b] \in Bill
  BY <1>1, ImportRequest
<1>3. row \in Bill
  BY <1>2 DEF Bill
<1>4. req' = [req EXCEPT ![c] = q] /\ bills' = [bills EXCEPT ![b] = row]
  BY DEF LoseItem, TypeOK
<1> HIDE DEF q, row
<1>5. bills' \in Seq(Bill) /\ Len(bills') = Len(bills)
  <2> HIDE DEF b
  <2> QED
    BY <1>2, <1>3, <1>4 DEF TypeOK
<1>6. UNCHANGED <<stockQty, moved, orders, sources, returns, owed, applied>>
  BY DEF LoseItem, orderTables, returnTables
<1>7. q \in Requests /\ q.op = "import"
  BY <1>2 DEF Requests, BillReq
<1>8. req' \in [Clients -> Requests]
  BY <1>4, <1>7 DEF TypeOK
<1>9. ASSUME NEW d \in Clients PROVE RowsExist(req[d])'
  <2>1. CASE d = c
    BY <1>2, <1>4, <1>5, <1>7, <2>1 DEF RowsExist, TypeOK
  <2>2. CASE d # c
    <3>1. req'[d] = req[d] /\ RowsExist(req[d])
      BY <1>4, <2>2 DEF TypeOK
    <3> QED
      BY <1>5, <1>6, <3>1 DEF RowsExist
  <2> QED
    BY <2>1, <2>2
<1>10. \A n \in 1..Len(returns') : returns'[n].source \in 1..Len(sources')
  BY <1>6 DEF TypeOK
<1> QED
  BY <1>5, <1>6, <1>8, <1>9, <1>10 DEF TypeOK

LEMMA TypeFinishImport ==
    ASSUME TypeOK, NEW c \in Clients, FinishImport(c)
    PROVE  TypeOK'
<1> DEFINE b == req[c].bill
           row == Outcome(bills[b], req[c].imported)
<1>1. b \in 1..Len(bills) /\ bills[b] \in Bill
  BY ImportRequest DEF FinishImport
<1>2. row \in Bill
  BY <1>1 DEF Outcome, Bill
<1>3. bills' = [bills EXCEPT ![b] = row]
  BY DEF FinishImport
<1> HIDE DEF row, b
<1>4. bills' \in Seq(Bill) /\ Len(bills') = Len(bills)
  BY <1>1, <1>2, <1>3 DEF TypeOK
<1>5. UNCHANGED <<stockQty, moved, orders, sources, returns, owed, applied>>
  BY DEF FinishImport, orderTables, returnTables
<1>6. Len(bills) \in Nat /\ Len(orders) \in Nat /\ Len(sources) \in Nat /\ Len(returns) \in Nat
  BY DEF TypeOK
<1>7. req' \in [Clients -> Requests] /\ \A d \in Clients : RowsExist(req[d])'
  BY <1>4, <1>5, <1>6, TypeDone DEF FinishImport
<1> QED
  BY <1>4, <1>5, <1>7 DEF TypeOK

(* The request of a return, and the movement it names.                     *)
LEMMA ReturnRequest ==
    ASSUME TypeOK, NEW c \in Clients, req[c].op = "return"
    PROVE  /\ req[c] \in [op : {"return"}, source : Nat, qty : Nat, again : Nat,
                          party : BOOLEAN, resolution : Resolutions,
                          seen : Nat, attempt : {1, 2}]
           /\ req[c].qty \in Nat
           /\ req[c].source \in 1..Len(sources)
           /\ sources[req[c].source] \in Source
           /\ NewReturn(req[c]) \in PurchaseReturn
<1>1. req[c] \in [op : {"return"}, source : Nat, qty : Nat, again : Nat,
                  party : BOOLEAN, resolution : Resolutions,
                  seen : Nat, attempt : {1, 2}]
  BY RequestKind DEF TypeOK
<1>2. req[c].source \in 1..Len(sources)
  BY DEF TypeOK, RowsExist
<1>3. sources[req[c].source] \in Source
  BY <1>2 DEF TypeOK
<1>4. NewReturn(req[c]) \in PurchaseReturn
  BY <1>1 DEF NewReturn, PurchaseReturn
<1> QED
  BY <1>1, <1>2, <1>3, <1>4, ReturnsAssumption

LEMMA TypeBeginReturn ==
    ASSUME TypeOK, NEW c \in Clients, BeginReturn(c)
    PROVE  TypeOK'
<1>1. PICK s \in 1..Len(sources), form \in ReturnForms, party \in BOOLEAN,
           resolution \in Resolutions :
        /\ Returnable(sources[s], form)
        /\ req' = [req EXCEPT ![c] =
                     [op |-> "return", source |-> s, qty |-> form.qty, again |-> form.again, party |-> party,
                      resolution |-> resolution, seen |-> sources[s].returned,
                      attempt |-> 1]]
  BY DEF BeginReturn
<1> DEFINE q == [op |-> "return", source |-> s, qty |-> form.qty, again |-> form.again, party |-> party,
                 resolution |-> resolution, seen |-> sources[s].returned,
                 attempt |-> 1]
<1>2. q \in Requests
  <2>1. sources[s] \in Source /\ s \in Nat
    BY DEF TypeOK
  <2>2. sources[s].returned \in Nat
    BY <2>1 DEF Source
  <2>3. q \in ReturnReq
    BY <2>1, <2>2, ReturnsAssumption DEF ReturnReq
  <2> QED
    BY <2>3 DEF Requests
<1>3. RowsExist(q)
  BY DEF RowsExist
<1>4. req' = [req EXCEPT ![c] = q] /\ UNCHANGED tables
  BY <1>1 DEF BeginReturn
<1> HIDE DEF q
<1> QED
  BY <1>2, <1>3, <1>4, TypeRequest

LEMMA TypeRetryReturn ==
    ASSUME TypeOK, NEW c \in Clients, RetryReturn(c)
    PROVE  TypeOK'
<1> DEFINE q == [req[c] EXCEPT !.seen = sources[req[c].source].returned, !.attempt = 2]
<1>1. req[c].op = "return"
  BY DEF RetryReturn
<1>2. sources[req[c].source].returned \in Nat
  BY <1>1, ReturnRequest DEF Source
<1>3. /\ q \in [op : {"return"}, source : Nat, qty : Nat, again : Nat,
                party : BOOLEAN, resolution : Resolutions,
                seen : Nat, attempt : {1, 2}]
      /\ q.source = req[c].source
  BY <1>1, <1>2, ReturnRequest
<1>4. req' = [req EXCEPT ![c] = q] /\ UNCHANGED tables
  BY DEF RetryReturn, TypeOK
<1> HIDE DEF q
<1>5. q \in Requests /\ q.op = "return"
  BY <1>3 DEF Requests, ReturnReq
<1>6. RowsExist(q)
  BY <1>1, <1>3, <1>5, ReturnRequest DEF RowsExist
<1> QED
  BY <1>4, <1>5, <1>6, TypeRequest

(* What the transaction of a return does to the movement it names.         *)
LEMMA CommitReturnSource ==
    ASSUME TypeOK, NEW c \in Clients, CommitReturn(c)
    PROVE  /\ req[c].op = "return"
           /\ sources' = [sources EXCEPT ![req[c].source] =
                            [sources[req[c].source] EXCEPT !.returned = @ + req[c].qty]]
           /\ sources' \in Seq(Source)
           /\ Len(sources') = Len(sources)
           /\ returns' = Append(returns, NewReturn(req[c]))
<1> DEFINE s == req[c].source
           row == [sources[s] EXCEPT !.returned = @ + req[c].qty]
<1>1. req[c].op = "return" /\ returns' = Append(returns, NewReturn(req[c]))
  BY DEF CommitReturn
<1>2. s \in 1..Len(sources) /\ sources[s] \in Source /\ req[c].qty \in Nat
  BY <1>1, ReturnRequest
<1>3. row \in Source
  <2>1. sources[s].returned + req[c].qty \in Nat
    BY <1>2 DEF Source
  <2> QED
    BY <1>2, <2>1 DEF Source
<1>4. sources' = [sources EXCEPT ![s] = row]
  BY DEF CommitReturn
<1>5. sources' \in Seq(Source) /\ Len(sources') = Len(sources)
  <2> HIDE DEF row, s
  <2> QED
    BY <1>2, <1>3, <1>4 DEF TypeOK
<1> QED
  BY <1>1, <1>4, <1>5

LEMMA TypeCommitReturn ==
    ASSUME TypeOK, NEW c \in Clients, CommitReturn(c)
    PROVE  TypeOK'
<1> DEFINE p == sources[req[c].source].part
           n == req[c].qty
<1>1. req[c].op = "return" /\ sources' \in Seq(Source) /\ Len(sources') = Len(sources)
  BY CommitReturnSource
<1>2. p \in Parts /\ n \in Nat
  BY <1>1, ReturnRequest DEF Source
<1>3. stockQty' \in Quantities
  <2>1. stockQty[p] >= n
    BY DEF CommitReturn, InStock
  <2>2. stockQty' = [stockQty EXCEPT ![p] = @ - n]
    BY DEF CommitReturn
  <2> HIDE DEF p, n
  <2> QED
    BY <1>2, <2>1, <2>2 DEF TypeOK, Quantities
<1>4. moved' \in [MoveTypes -> Quantities]
  <2>1. moved' = [moved EXCEPT !["PURCHASE_RETURN_OUT"] =
                    [moved["PURCHASE_RETURN_OUT"] EXCEPT ![p] = @ + n]]
    BY DEF CommitReturn, TypeOK, MoveTypes
  <2>2. moved["PURCHASE_RETURN_OUT"] \in Quantities
    BY DEF TypeOK, MoveTypes
  <2> HIDE DEF p, n
  <2>3. [moved["PURCHASE_RETURN_OUT"] EXCEPT ![p] = @ + n] \in Quantities
    BY <1>2, <2>2 DEF Quantities
  <2> QED
    BY <2>1, <2>3 DEF TypeOK
<1>5. /\ returns' \in Seq(PurchaseReturn) /\ Len(returns') = Len(returns) + 1
      /\ \A k \in 1..Len(returns') : returns'[k].source \in 1..Len(sources')
  <2>1. NewReturn(req[c]) \in PurchaseReturn /\ NewReturn(req[c]).source \in 1..Len(sources)
    BY <1>1, ReturnRequest DEF NewReturn
  <2>2. returns' = Append(returns, NewReturn(req[c]))
    BY CommitReturnSource
  <2>3. returns \in Seq(PurchaseReturn) /\ Len(returns) \in Nat
    BY DEF TypeOK
  <2>4. returns' \in Seq(PurchaseReturn) /\ Len(returns') = Len(returns) + 1
    BY <2>1, <2>2, <2>3
  <2>5. ASSUME NEW k \in 1..Len(returns') PROVE returns'[k].source \in 1..Len(sources)
    <3>1. CASE k = Len(returns) + 1
      BY <2>1, <2>2, <2>3, <3>1
    <3>2. CASE k \in 1..Len(returns)
      BY <2>2, <2>3, <3>2 DEF TypeOK
    <3> QED
      BY <2>3, <2>4, <3>1, <3>2
  <2> QED
    BY <1>1, <2>4, <2>5
<1>6. UNCHANGED <<orders, bills, owed, applied>>
  BY DEF CommitReturn, orderTables
<1>7. Len(bills) \in Nat /\ Len(orders) \in Nat /\ Len(sources) \in Nat /\ Len(returns) \in Nat
  BY DEF TypeOK
<1>8. req' \in [Clients -> Requests] /\ \A d \in Clients : RowsExist(req[d])'
  BY <1>1, <1>5, <1>6, <1>7, TypeDone DEF CommitReturn
<1> QED
  BY <1>1, <1>3, <1>4, <1>5, <1>6, <1>8 DEF TypeOK

LEMMA TypeBeginResolve ==
    ASSUME TypeOK, NEW c \in Clients, NEW n \in 1..Len(returns), BeginResolve(c, n)
    PROVE  TypeOK'
<1>1. PICK to \in Resolutions :
        req' = [req EXCEPT ![c] =
                  [op |-> "resolve", return |-> n, to |-> to,
                   version |-> returns[n].version, seen |-> returns[n].resolution]]
  BY DEF BeginResolve
<1> DEFINE q == [op |-> "resolve", return |-> n, to |-> to,
                 version |-> returns[n].version, seen |-> returns[n].resolution]
<1>2. q \in Requests
  <2>1. returns[n] \in PurchaseReturn /\ n \in Nat
    BY DEF TypeOK
  <2>2. returns[n].version \in Nat /\ returns[n].resolution \in Resolutions
    BY <2>1 DEF PurchaseReturn
  <2>3. q \in ReturnReq
    BY <2>1, <2>2, ReturnsAssumption DEF ReturnReq
  <2> QED
    BY <2>3 DEF Requests
<1>3. RowsExist(q)
  BY DEF RowsExist
<1>4. req' = [req EXCEPT ![c] = q] /\ UNCHANGED tables
  BY <1>1 DEF BeginResolve
<1> HIDE DEF q
<1> QED
  BY <1>2, <1>3, <1>4, TypeRequest

(* A resolution keeps the type of a return, and its source.                *)
LEMMA ResolvedType ==
    ASSUME NEW r \in PurchaseReturn, NEW to \in Resolutions
    PROVE  /\ Resolved(r, to) \in PurchaseReturn
           /\ Resolved(r, to).source = r.source
           /\ Resolved(r, to).qty = r.qty /\ Resolved(r, to).again = r.again
           /\ Resolved(r, to).resolution = to
           /\ Resolved(r, to).version = r.version + 1
           /\ Resolved(r, to).creditLedgerPosted
                <=> (r.creditLedgerPosted \/ PostsCredit(r, to))
           /\ Resolved(r, to).credits =
                IF PostsCredit(r, to) THEN r.credits + 1 ELSE r.credits
<1> DEFINE r1 == [r EXCEPT !.resolution = to]
           r2 == [r1 EXCEPT !.version = @ + 1]
           r3 == [r2 EXCEPT !.creditLedgerPosted = @ \/ PostsCredit(r, to)]
           r4 == [r3 EXCEPT !.credits = IF PostsCredit(r, to) THEN @ + 1 ELSE @]
<1>1. r1 \in PurchaseReturn /\ r1.source = r.source /\ r1.qty = r.qty /\ r1.again = r.again /\ r1.resolution = to
      /\ r1.version = r.version /\ r1.creditLedgerPosted = r.creditLedgerPosted
      /\ r1.credits = r.credits
  BY DEF PurchaseReturn
<1>2. r2 \in PurchaseReturn /\ r2.source = r.source /\ r2.qty = r.qty /\ r2.again = r.again /\ r2.resolution = to
      /\ r2.version = r.version + 1 /\ r2.creditLedgerPosted = r.creditLedgerPosted
      /\ r2.credits = r.credits
  <2> HIDE DEF r1
  <2> QED
    BY <1>1 DEF PurchaseReturn
<1>3. PostsCredit(r, to) \in BOOLEAN
  BY DEF PostsCredit
<1>4. r3 \in PurchaseReturn /\ r3.source = r.source /\ r3.qty = r.qty /\ r3.again = r.again /\ r3.resolution = to
      /\ r3.version = r.version + 1 /\ r3.credits = r.credits
      /\ (r3.creditLedgerPosted <=> (r.creditLedgerPosted \/ PostsCredit(r, to)))
  <2> HIDE DEF r2
  <2> QED
    BY <1>2, <1>3 DEF PurchaseReturn
<1>5. r4 \in PurchaseReturn /\ r4.source = r.source /\ r4.qty = r.qty /\ r4.again = r.again /\ r4.resolution = to
      /\ r4.version = r.version + 1
      /\ (r4.creditLedgerPosted <=> (r.creditLedgerPosted \/ PostsCredit(r, to)))
      /\ r4.credits = IF PostsCredit(r, to) THEN r.credits + 1 ELSE r.credits
  <2> HIDE DEF r3
  <2>1. CASE PostsCredit(r, to)
    BY <1>4, <2>1 DEF PurchaseReturn
  <2>2. CASE ~PostsCredit(r, to)
    BY <1>4, <2>2 DEF PurchaseReturn
  <2> QED
    BY <2>1, <2>2
<1>6. Resolved(r, to) = r4
  BY DEF Resolved
<1> QED
  BY <1>5, <1>6

(* What the transaction of a resolution does to the returns.               *)
LEMMA CommitResolveRow ==
    ASSUME TypeOK, NEW c \in Clients, CommitResolve(c)
    PROVE  /\ req[c].return \in 1..Len(returns)
           /\ req[c].to \in Resolutions
           /\ returns[req[c].return] \in PurchaseReturn
           /\ returns' = [returns EXCEPT ![req[c].return] =
                            Resolved(returns[req[c].return], req[c].to)]
           /\ returns' \in Seq(PurchaseReturn)
           /\ Len(returns') = Len(returns)
<1> DEFINE n == req[c].return
           row == Resolved(returns[n], req[c].to)
<1>1. n \in 1..Len(returns) /\ req[c].to \in Resolutions
  BY RequestKind DEF CommitResolve, TypeOK, RowsExist
<1>2. returns[n] \in PurchaseReturn
  BY <1>1 DEF TypeOK
<1>3. row \in PurchaseReturn
  BY <1>1, <1>2, ResolvedType
<1>4. returns' = [returns EXCEPT ![n] = row]
  BY DEF CommitResolve
<1>5. returns' \in Seq(PurchaseReturn) /\ Len(returns') = Len(returns)
  <2> HIDE DEF row, n
  <2> QED
    BY <1>1, <1>3, <1>4 DEF TypeOK
<1> QED
  BY <1>1, <1>2, <1>4, <1>5

LEMMA TypeCommitResolve ==
    ASSUME TypeOK, NEW c \in Clients, CommitResolve(c)
    PROVE  TypeOK'
<1> DEFINE n == req[c].return
           row == Resolved(returns[n], req[c].to)
<1>1. /\ n \in 1..Len(returns) /\ req[c].to \in Resolutions
      /\ returns[n] \in PurchaseReturn
      /\ returns' = [returns EXCEPT ![n] = row]
      /\ returns' \in Seq(PurchaseReturn) /\ Len(returns') = Len(returns)
  BY CommitResolveRow
<1>2. UNCHANGED <<stockQty, moved, orders, bills, sources, applied>>
  BY DEF CommitResolve, orderTables, billTables
<1>3. owed' \in Int
  <2>1. returns[n].qty \in Nat
    BY <1>1, ReturnsAssumption DEF PurchaseReturn
  <2>2. owed \in Int
    BY DEF TypeOK
  <2> QED
    BY <2>1, <2>2 DEF CommitResolve, LedgerBalance
<1>4. \A k \in 1..Len(returns') : returns'[k].source \in 1..Len(sources')
  <2>1. row.source = returns[n].source
    BY <1>1, ResolvedType
  <2> HIDE DEF row, n
  <2> QED
    BY <1>1, <1>2, <2>1 DEF TypeOK
<1>5. Len(bills) \in Nat /\ Len(orders) \in Nat /\ Len(sources) \in Nat /\ Len(returns) \in Nat
  BY DEF TypeOK
<1>6. req' \in [Clients -> Requests] /\ \A d \in Clients : RowsExist(req[d])'
  BY <1>1, <1>2, <1>5, TypeDone DEF CommitResolve
<1> QED
  BY <1>1, <1>2, <1>3, <1>4, <1>6 DEF TypeOK

LEMMA TypeBeginApply ==
    ASSUME TypeOK, NEW c \in Clients, BeginApply(c)
    PROVE  TypeOK'
<1>1. PICK amount \in CreditAmounts :
        req' = [req EXCEPT ![c] = [op |-> "apply", amount |-> amount]]
  BY DEF BeginApply
<1> DEFINE q == [op |-> "apply", amount |-> amount]
<1>2. q \in Requests /\ RowsExist(q)
  BY DEF Requests, ReturnReq, RowsExist
<1>3. req' = [req EXCEPT ![c] = q] /\ UNCHANGED tables
  BY <1>1 DEF BeginApply
<1> HIDE DEF q
<1> QED
  BY <1>2, <1>3, TypeRequest

LEMMA TypeCommitApply ==
    ASSUME TypeOK, NEW c \in Clients, CommitApply(c)
    PROVE  TypeOK'
<1>1. req[c].amount \in Nat /\ owed \in Int /\ applied \in Nat
  BY RequestKind DEF CommitApply, TypeOK
<1>2. owed' \in Int /\ applied' \in Nat
  BY <1>1 DEF CommitApply, LedgerBalance
<1>3. UNCHANGED <<stockQty, moved, orders, bills, sources, returns>>
  BY DEF CommitApply, orderTables, billTables
<1>4. Len(bills) \in Nat /\ Len(orders) \in Nat /\ Len(sources) \in Nat /\ Len(returns) \in Nat
  BY DEF TypeOK
<1>5. req' \in [Clients -> Requests] /\ \A d \in Clients : RowsExist(req[d])'
  BY <1>3, <1>4, TypeDone DEF CommitApply
<1> QED
  BY <1>2, <1>3, <1>5 DEF TypeOK

LEMMA TypeSell ==
    ASSUME TypeOK, NEW p \in Parts, Sell(p)
    PROVE  TypeOK'
<1>1. stockQty' \in Quantities
  BY DEF Sell, TypeOK, Quantities
<1>2. moved' \in [MoveTypes -> Quantities]
  <2>1. moved' = [moved EXCEPT !["SALE"] = [moved["SALE"] EXCEPT ![p] = @ + 1]]
    BY DEF Sell, TypeOK, MoveTypes
  <2>2. moved["SALE"] \in Quantities
    BY DEF TypeOK, MoveTypes
  <2>3. [moved["SALE"] EXCEPT ![p] = @ + 1] \in Quantities
    BY <2>2 DEF Quantities
  <2> QED
    BY <2>1, <2>3 DEF TypeOK
<1>3. UNCHANGED <<orders, bills, sources, returns, owed, applied, req>>
  BY DEF Sell, orderTables, billTables, returnTables
<1> QED
  BY <1>1, <1>2, <1>3 DEF TypeOK, RowsExist

LEMMA TypeAbandon ==
    ASSUME TypeOK, NEW c \in Clients, Abandon(c)
    PROVE  TypeOK'
<1>1. Idle \in Requests /\ RowsExist(Idle)
  BY DEF Requests, Idle, RowsExist
<1> QED
  BY <1>1, TypeRequest DEF Abandon, Done

LEMMA TypeNext == TypeOK /\ [Next]_vars => TypeOK'
<1> SUFFICES ASSUME TypeOK, [Next]_vars PROVE TypeOK'
  OBVIOUS
<1>1. CASE OrdersNext
  BY <1>1, TypeCreateOrder, TypeCloneOrder, TypeBeginEdit, TypeBeginStatus,
     TypeBeginSend, TypeCommitEdit, TypeCommitStatus, TypeFinishSend DEF OrdersNext
<1>2. CASE BillsNext
  BY <1>2, TypeBeginExtract, TypeCreateBill, TypeFinishImport, TypeBeginImport,
     TypeImportItem, TypeSkipItem, TypeLoseItem DEF BillsNext
<1>3. CASE PurchaseReturnsNext
  BY <1>3, TypeBeginReturn, TypeCommitReturn, TypeRetryReturn, TypeBeginResolve,
     TypeCommitResolve, TypeBeginApply, TypeCommitApply DEF PurchaseReturnsNext
<1>4. CASE \E p \in Parts : Sell(p)
  BY <1>4, TypeSell
<1>5. CASE \E c \in Clients : Abandon(c)
  BY <1>5, TypeAbandon
<1>6. CASE UNCHANGED vars
  BY <1>6 DEF vars, tables, orderTables, billTables, returnTables, TypeOK, RowsExist
<1> QED
  BY <1>1, <1>2, <1>3, <1>4, <1>5, <1>6 DEF Next

(* No reachable state has a negative stock or a request about a row that   *)
(* is gone (purchaseReturns.js 203-210).                                   *)
THEOREM TypeCorrect == Spec => []TypeOK
BY TypeInit, TypeNext, PTL DEF Spec

-----------------------------------------------------------------------------
(* Which handlers write which tables.                                      *)
LEMMA StockWriters ==
    ASSUME [Next]_vars
    PROVE  \/ UNCHANGED <<stockQty, moved>>
           \/ \E c \in Clients : CommitStatus(c) \/ CommitReturn(c)
           \/ \E c \in Clients, p \in Parts : ImportItem(c, p)
           \/ \E p \in Parts : Sell(p)
<1>1. CASE OrdersNext
  BY <1>1 DEF OrdersNext, CreateOrder, CloneOrder, BeginEdit, BeginStatus, BeginSend,
     CommitEdit, FinishSend, tables
<1>2. CASE BillsNext
  BY <1>2 DEF BillsNext, BeginExtract, CreateBill, FinishImport, BeginImport, SkipItem,
     LoseItem, tables
<1>3. CASE PurchaseReturnsNext
  BY <1>3 DEF PurchaseReturnsNext, BeginReturn, RetryReturn, BeginResolve, CommitResolve,
     BeginApply, CommitApply, tables
<1>4. CASE \E c \in Clients : Abandon(c)
  BY <1>4 DEF Abandon, tables
<1>5. CASE UNCHANGED vars
  BY <1>5 DEF vars, tables
<1> QED
  BY <1>1, <1>2, <1>3, <1>4, <1>5 DEF Next

LEMMA OrderWriters ==
    ASSUME [Next]_vars
    PROVE  \/ UNCHANGED orders
           \/ \E cart \in Carts : CreateOrder(cart)
           \/ \E o \in 1..Len(orders) : CloneOrder(o)
           \/ \E c \in Clients : CommitEdit(c) \/ CommitStatus(c) \/ FinishSend(c)
<1>1. CASE OrdersNext
  BY <1>1 DEF OrdersNext, BeginEdit, BeginStatus, BeginSend, tables, orderTables
<1>2. CASE BillsNext
  BY <1>2 DEF BillsNext, BeginExtract, CreateBill, FinishImport, BeginImport, SkipItem,
     LoseItem, ImportItem, tables, orderTables
<1>3. CASE PurchaseReturnsNext
  BY <1>3 DEF PurchaseReturnsNext, BeginReturn, RetryReturn, BeginResolve, CommitResolve,
     CommitReturn, BeginApply, CommitApply, tables, orderTables
<1>4. CASE \E p \in Parts : Sell(p)
  BY <1>4 DEF Sell, orderTables
<1>5. CASE \E c \in Clients : Abandon(c)
  BY <1>5 DEF Abandon, tables, orderTables
<1>6. CASE UNCHANGED vars
  BY <1>6 DEF vars, tables, orderTables
<1> QED
  BY <1>1, <1>2, <1>3, <1>4, <1>5, <1>6 DEF Next

-----------------------------------------------------------------------------
(* StockMatchesMovements is inductive relative to TypeOK.                  *)
LEMMA StockReceive ==
    ASSUME TypeOK, StockMatchesMovements, NEW qty \in Quantities, Receive(qty)
    PROVE  StockMatchesMovements'
<1> SUFFICES ASSUME NEW p \in Parts
             PROVE  stockQty'[p] = moved'["PURCHASE"][p] - moved'["SALE"][p]
                                   - moved'["PURCHASE_RETURN_OUT"][p]
  BY DEF StockMatchesMovements
<1>1. /\ stockQty[p] \in Nat /\ moved["PURCHASE"][p] \in Nat /\ qty[p] \in Nat
      /\ moved["SALE"][p] \in Nat /\ moved["PURCHASE_RETURN_OUT"][p] \in Nat
  BY DEF TypeOK, Quantities, MoveTypes
<1>2. stockQty'[p] = stockQty[p] + qty[p]
  BY DEF Receive, Plus
<1>3. /\ moved'["PURCHASE"][p] = moved["PURCHASE"][p] + qty[p]
      /\ moved'["SALE"] = moved["SALE"]
      /\ moved'["PURCHASE_RETURN_OUT"] = moved["PURCHASE_RETURN_OUT"]
  BY DEF Receive, Plus, TypeOK, MoveTypes
<1> QED
  BY <1>1, <1>2, <1>3 DEF StockMatchesMovements

LEMMA StockNext ==
    TypeOK /\ StockMatchesMovements /\ [Next]_vars => StockMatchesMovements'
<1> SUFFICES ASSUME TypeOK, StockMatchesMovements, [Next]_vars
             PROVE  StockMatchesMovements'
  OBVIOUS
<1>1. CASE UNCHANGED <<stockQty, moved>>
  BY <1>1 DEF StockMatchesMovements
<1>2. ASSUME NEW c \in Clients, CommitStatus(c) PROVE StockMatchesMovements'
  <2>1. req[c].receipt \in Quantities
    BY <1>2, CommitStatusRow
  <2> QED
    BY <1>2, <2>1, StockReceive DEF CommitStatus
<1>3. ASSUME NEW c \in Clients, NEW p \in Parts, ImportItem(c, p)
      PROVE  StockMatchesMovements'
  <2>1. Only(p, req[c].cart[p]) \in Quantities
    BY <1>3, ImportRequest, QuantityArithmetic DEF ImportItem
  <2> QED
    BY <1>3, <2>1, StockReceive DEF ImportItem
<1>4. ASSUME NEW c \in Clients, CommitReturn(c) PROVE StockMatchesMovements'
  <2> DEFINE p == sources[req[c].source].part
             n == req[c].qty
  <2>1. p \in Parts /\ n \in Nat
    BY <1>4, ReturnRequest DEF CommitReturn, Source
  <2>2. /\ stockQty' = [stockQty EXCEPT ![p] = @ - n]
        /\ moved' = [moved EXCEPT !["PURCHASE_RETURN_OUT"] =
                       [moved["PURCHASE_RETURN_OUT"] EXCEPT ![p] = @ + n]]
    BY <1>4 DEF CommitReturn, TypeOK, MoveTypes
  <2> HIDE DEF p, n
  <2>3. ASSUME NEW k \in Parts
        PROVE  stockQty'[k] = moved'["PURCHASE"][k] - moved'["SALE"][k]
                              - moved'["PURCHASE_RETURN_OUT"][k]
    <3>1. /\ stockQty[k] \in Nat /\ moved["PURCHASE"][k] \in Nat
          /\ moved["SALE"][k] \in Nat /\ moved["PURCHASE_RETURN_OUT"][k] \in Nat
      BY DEF TypeOK, Quantities, MoveTypes
    <3>2. /\ moved'["PURCHASE"] = moved["PURCHASE"]
          /\ moved'["SALE"] = moved["SALE"]
          /\ moved'["PURCHASE_RETURN_OUT"] =
               [moved["PURCHASE_RETURN_OUT"] EXCEPT ![p] = @ + n]
      BY <2>2 DEF TypeOK, MoveTypes
    <3>3. moved["PURCHASE_RETURN_OUT"] \in [Parts -> Nat] /\ stockQty \in [Parts -> Nat]
      BY DEF TypeOK, MoveTypes, Quantities
    <3>4. stockQty[k] = moved["PURCHASE"][k] - moved["SALE"][k]
                        - moved["PURCHASE_RETURN_OUT"][k]
      BY DEF StockMatchesMovements
    <3>5. CASE k = p
      BY <2>1, <2>2, <3>1, <3>2, <3>3, <3>4, <3>5
    <3>6. CASE k # p
      BY <2>1, <2>2, <3>1, <3>2, <3>3, <3>4, <3>6
    <3> QED
      BY <3>5, <3>6
  <2> QED
    BY <2>3 DEF StockMatchesMovements
<1>5. ASSUME NEW p \in Parts, Sell(p) PROVE StockMatchesMovements'
  <2>1. /\ stockQty' = [stockQty EXCEPT ![p] = @ - 1]
        /\ moved' = [moved EXCEPT !["SALE"] = [moved["SALE"] EXCEPT ![p] = @ + 1]]
    BY <1>5 DEF Sell, TypeOK, MoveTypes
  <2>2. ASSUME NEW k \in Parts
        PROVE  stockQty'[k] = moved'["PURCHASE"][k] - moved'["SALE"][k]
                              - moved'["PURCHASE_RETURN_OUT"][k]
    <3>1. /\ stockQty[k] \in Nat /\ moved["PURCHASE"][k] \in Nat
          /\ moved["SALE"][k] \in Nat /\ moved["PURCHASE_RETURN_OUT"][k] \in Nat
      BY DEF TypeOK, Quantities, MoveTypes
    <3>2. /\ moved'["PURCHASE"] = moved["PURCHASE"]
          /\ moved'["SALE"] = [moved["SALE"] EXCEPT ![p] = @ + 1]
          /\ moved'["PURCHASE_RETURN_OUT"] = moved["PURCHASE_RETURN_OUT"]
      BY <2>1 DEF TypeOK, MoveTypes
    <3>3. moved["SALE"] \in [Parts -> Nat] /\ stockQty \in [Parts -> Nat]
      BY DEF TypeOK, MoveTypes, Quantities
    <3>4. stockQty[k] = moved["PURCHASE"][k] - moved["SALE"][k]
                        - moved["PURCHASE_RETURN_OUT"][k]
      BY DEF StockMatchesMovements
    <3>5. CASE k = p
      BY <2>1, <3>1, <3>2, <3>3, <3>4, <3>5
    <3>6. CASE k # p
      BY <2>1, <3>1, <3>2, <3>3, <3>4, <3>6
    <3> QED
      BY <3>5, <3>6
  <2> QED
    BY <2>2 DEF StockMatchesMovements
<1> QED
  BY <1>1, <1>2, <1>3, <1>4, <1>5, StockWriters

(* The movements of purchases, sales and returns to suppliers explain the  *)
(* stock of every part, however requests interleave and die.               *)
THEOREM PurchasesExplainStock == Spec => []StockMatchesMovements
<1>1. Init => StockMatchesMovements
  <2> SUFFICES ASSUME Init, NEW p \in Parts
               PROVE  stockQty[p] = moved["PURCHASE"][p] - moved["SALE"][p]
                                    - moved["PURCHASE_RETURN_OUT"][p]
    BY DEF StockMatchesMovements
  <2>1. /\ stockQty = Nothing /\ moved["PURCHASE"] = Nothing
        /\ moved["SALE"] = Nothing /\ moved["PURCHASE_RETURN_OUT"] = Nothing
    BY DEF Init, MoveTypes
  <2>2. Nothing[p] = 0
    BY DEF Nothing
  <2> QED
    BY <2>1, <2>2
<1> QED
  BY <1>1, StockNext, TypeCorrect, PTL DEF Spec

-----------------------------------------------------------------------------
(* ReceivedWithinOrdered is inductive relative to TypeOK.                  *)
LEMMA NothingIsCovered ==
    ASSUME NEW q \in Quantities
    PROVE  Covers(q, Nothing) /\ Plus(q, Nothing) = q
BY DEF Covers, Nothing, Plus, Quantities

LEMMA OrdersNewRow ==
    ASSUME TypeOK, ReceivedWithinOrdered, NEW cart \in Carts,
           orders' = Append(orders, Draft(cart))
    PROVE  ReceivedWithinOrdered'
<1>1. cart \in Quantities
  BY PurchasesAssumption
<1>2. Covers(Draft(cart).ordered, Draft(cart).received)
  BY <1>1, NothingIsCovered DEF Draft
<1>3. orders \in Seq(Order) /\ Len(orders) \in Nat
  BY DEF TypeOK
<1>4. ASSUME NEW o \in 1..Len(orders')
      PROVE  Covers(orders'[o].ordered, orders'[o].received)
  <2>1. CASE o = Len(orders) + 1
    BY <1>2, <1>3, <2>1, DraftType
  <2>2. CASE o \in 1..Len(orders)
    BY <1>3, <2>2, DraftType DEF ReceivedWithinOrdered
  <2>3. Len(orders') = Len(orders) + 1
    BY <1>3, DraftType
  <2> QED
    BY <1>3, <2>1, <2>2, <2>3
<1> QED
  BY <1>4 DEF ReceivedWithinOrdered, Covers

LEMMA OrdersReplacedRow ==
    ASSUME TypeOK, ReceivedWithinOrdered, NEW o \in 1..Len(orders), NEW row,
           Covers(row.ordered, row.received),
           orders' = [orders EXCEPT ![o] = row]
    PROVE  ReceivedWithinOrdered'
<1>1. Len(orders') = Len(orders)
  BY DEF TypeOK
<1>2. ASSUME NEW n \in 1..Len(orders')
      PROVE  Covers(orders'[n].ordered, orders'[n].received)
  <2>1. CASE n = o
    BY <1>1, <2>1 DEF TypeOK
  <2>2. CASE n # o
    BY <1>1, <2>2 DEF TypeOK, ReceivedWithinOrdered
  <2> QED
    BY <2>1, <2>2
<1> QED
  BY <1>2 DEF ReceivedWithinOrdered, Covers

LEMMA OrdersNextKeeps ==
    TypeOK /\ ReceivedWithinOrdered /\ [Next]_vars => ReceivedWithinOrdered'
<1> SUFFICES ASSUME TypeOK, ReceivedWithinOrdered, [Next]_vars
             PROVE  ReceivedWithinOrdered'
  OBVIOUS
<1>1. CASE UNCHANGED orders
  BY <1>1 DEF ReceivedWithinOrdered, Covers
<1>2. ASSUME NEW cart \in Carts, CreateOrder(cart) PROVE ReceivedWithinOrdered'
  BY <1>2, OrdersNewRow DEF CreateOrder
<1>3. ASSUME NEW o \in 1..Len(orders), CloneOrder(o) PROVE ReceivedWithinOrdered'
  <2>1. orders[o] \in Order
    BY DEF TypeOK
  <2>2. orders[o].ordered \in Carts
    BY <2>1 DEF Order
  <2> QED
    BY <1>3, <2>2, OrdersNewRow DEF CloneOrder
<1>4. ASSUME NEW c \in Clients, CommitEdit(c) PROVE ReceivedWithinOrdered'
  <2> DEFINE o == req[c].order
             row == [orders[o] EXCEPT !.edition = @ + 1, !.ordered = req[c].cart,
                                      !.received = Nothing]
  <2>1. o \in 1..Len(orders) /\ req[c].cart \in Carts
    BY <1>4, RequestKind DEF CommitEdit, TypeOK, RowsExist
  <2>2. orders[o] \in Order
    BY <2>1 DEF TypeOK
  <2>3. orders' = [orders EXCEPT ![o] = row]
    BY <1>4, <2>1 DEF CommitEdit, TypeOK
  <2>4. row.ordered = req[c].cart /\ row.received = Nothing
    BY <2>2 DEF Order
  <2>5. Covers(row.ordered, row.received)
    BY <2>1, <2>4, NothingIsCovered, PurchasesAssumption
  <2> HIDE DEF row, o
  <2> QED
    BY <2>1, <2>3, <2>5, OrdersReplacedRow
<1>5. ASSUME NEW c \in Clients, CommitStatus(c) PROVE ReceivedWithinOrdered'
  <2> DEFINE o == req[c].order
             units == Plus(orders[o].received, req[c].receipt)
             row == [orders[o] EXCEPT !.status = req[c].to, !.received = units]
  <2>1. /\ o \in 1..Len(orders) /\ orders[o] \in Order
        /\ req[c].receipt \in Quantities
        /\ orders' = [orders EXCEPT ![o] = row]
    BY <1>5, CommitStatusRow
  <2>2. row.ordered = orders[o].ordered /\ row.received = units
    <3> HIDE DEF units
    <3> QED
      BY <2>1 DEF Order
  <2>3. Covers(orders[o].ordered, units)
    <3>1. CASE req[c].receipt = Nothing
      <4>1. units = orders[o].received
        BY <2>1, <3>1, NothingIsCovered DEF Order
      <4> QED
        BY <2>1, <4>1 DEF ReceivedWithinOrdered
    <3>2. CASE req[c].receipt # Nothing
      BY <1>5, <3>2 DEF CommitStatus, ReceiptFits
    <3> QED
      BY <3>1, <3>2
  <2> HIDE DEF row, o
  <2> QED
    BY <2>1, <2>2, <2>3, OrdersReplacedRow
<1>6. ASSUME NEW c \in Clients, FinishSend(c) PROVE ReceivedWithinOrdered'
  <2> DEFINE o == req[c].order
             row == [orders[o] EXCEPT !.status = "SENT"]
  <2>1. o \in 1..Len(orders)
    BY <1>6 DEF FinishSend, TypeOK, RowsExist
  <2>2. orders[o] \in Order
    BY <2>1 DEF TypeOK
  <2>3. orders' = [orders EXCEPT ![o] = row]
    BY <1>6, <2>1 DEF FinishSend, TypeOK
  <2>4. row.ordered = orders[o].ordered /\ row.received = orders[o].received
    BY <2>2 DEF Order
  <2>5. Covers(row.ordered, row.received)
    BY <2>1, <2>4 DEF ReceivedWithinOrdered
  <2> HIDE DEF row, o
  <2> QED
    BY <2>1, <2>3, <2>5, OrdersReplacedRow
<1> QED
  BY <1>1, <1>2, <1>3, <1>4, <1>5, <1>6, OrderWriters

(* No order is received beyond what it orders, however many deliveries are *)
(* reported at once and whatever an edit replaces meanwhile.               *)
THEOREM OrdersNotOverReceived == Spec => []ReceivedWithinOrdered
<1>1. Init => ReceivedWithinOrdered
  BY DEF Init, ReceivedWithinOrdered
<1> QED
  BY <1>1, OrdersNextKeeps, TypeCorrect, PTL DEF Spec

-----------------------------------------------------------------------------
(* Which handlers add to the movements or to what a return has read.       *)
LEMMA SourceWriters ==
    ASSUME TypeOK, [Next]_vars
    PROVE  \/ /\ UNCHANGED sources
              /\ \A c \in Clients : req'[c] = req[c] \/ req'[c].op # "return"
           \/ \E c \in Clients : BeginReturn(c) \/ CommitReturn(c) \/ RetryReturn(c)
           \/ \E c \in Clients, p \in Parts : ImportItem(c, p)
<1>1. CASE OrdersNext
  <2>1. CASE \E cart \in Carts : CreateOrder(cart)
    BY <2>1 DEF CreateOrder, billTables
  <2>2. CASE \E o \in 1..Len(orders) : CloneOrder(o)
    BY <2>2 DEF CloneOrder, billTables
  <2>3. ASSUME NEW c \in Clients, NEW o \in 1..Len(orders),
               BeginEdit(c, o) \/ BeginStatus(c, o) \/ BeginSend(c, o)
        PROVE  /\ UNCHANGED sources
               /\ \A d \in Clients : req'[d] = req[d] \/ req'[d].op # "return"
    BY <2>3 DEF BeginEdit, BeginStatus, BeginSend, tables, billTables, TypeOK
  <2>4. ASSUME NEW c \in Clients, CommitEdit(c) \/ CommitStatus(c) \/ FinishSend(c)
        PROVE  /\ UNCHANGED sources
               /\ \A d \in Clients : req'[d] = req[d] \/ req'[d].op # "return"
    BY <2>4 DEF CommitEdit, CommitStatus, FinishSend, billTables, TypeOK, Done, Idle
  <2> QED
    BY <1>1, <2>1, <2>2, <2>3, <2>4 DEF OrdersNext
<1>2. CASE BillsNext
  <2>1. ASSUME NEW c \in Clients, BeginExtract(c) \/ CreateBill(c) \/ FinishImport(c)
        PROVE  /\ UNCHANGED sources
               /\ \A d \in Clients : req'[d] = req[d] \/ req'[d].op # "return"
    BY <2>1 DEF BeginExtract, CreateBill, FinishImport, tables, billTables, TypeOK, Done, Idle
  <2>2. ASSUME NEW c \in Clients, NEW b \in 1..Len(bills), BeginImport(c, b)
        PROVE  /\ UNCHANGED sources
               /\ \A d \in Clients : req'[d] = req[d] \/ req'[d].op # "return"
    BY <2>2 DEF BeginImport, tables, billTables, TypeOK
  <2>3. ASSUME NEW c \in Clients, NEW p \in Parts, SkipItem(c, p) \/ LoseItem(c, p)
        PROVE  /\ UNCHANGED sources
               /\ \A d \in Clients : req'[d] = req[d] \/ req'[d].op # "return"
    <3>1. req'[c].op = req[c].op
      BY <2>3, ImportRequest DEF SkipItem, LoseItem, TypeOK
    <3> QED
      BY <2>3, <3>1 DEF SkipItem, LoseItem, tables, billTables, TypeOK
  <2> QED
    BY <1>2, <2>1, <2>2, <2>3 DEF BillsNext
<1>3. CASE PurchaseReturnsNext
  BY <1>3 DEF PurchaseReturnsNext, BeginResolve, CommitResolve, BeginApply, CommitApply,
     tables, billTables, TypeOK, Done, Idle
<1>4. CASE \E p \in Parts : Sell(p)
  BY <1>4 DEF Sell, billTables
<1>5. CASE \E c \in Clients : Abandon(c)
  BY <1>5 DEF Abandon, tables, billTables, TypeOK, Done, Idle
<1>6. CASE UNCHANGED vars
  BY <1>6 DEF vars, tables, billTables
<1> QED
  BY <1>1, <1>2, <1>3, <1>4, <1>5, <1>6 DEF Next

(* Which handlers change a return, or what a client saw of one.            *)
LEMMA ReturnWriters ==
    ASSUME TypeOK, [Next]_vars
    PROVE  \/ /\ UNCHANGED returns
              /\ \A c \in Clients : req'[c] = req[c] \/ req'[c].op # "resolve"
           \/ \E c \in Clients : CommitReturn(c) \/ CommitResolve(c)
           \/ \E c \in Clients, n \in 1..Len(returns) : BeginResolve(c, n)
<1>1. CASE OrdersNext
  <2>1. CASE \E cart \in Carts : CreateOrder(cart)
    BY <2>1 DEF CreateOrder, returnTables
  <2>2. CASE \E o \in 1..Len(orders) : CloneOrder(o)
    BY <2>2 DEF CloneOrder, returnTables
  <2>3. ASSUME NEW c \in Clients, NEW o \in 1..Len(orders),
               BeginEdit(c, o) \/ BeginStatus(c, o) \/ BeginSend(c, o)
        PROVE  /\ UNCHANGED returns
               /\ \A d \in Clients : req'[d] = req[d] \/ req'[d].op # "resolve"
    BY <2>3 DEF BeginEdit, BeginStatus, BeginSend, tables, returnTables, TypeOK
  <2>4. ASSUME NEW c \in Clients, CommitEdit(c) \/ CommitStatus(c) \/ FinishSend(c)
        PROVE  /\ UNCHANGED returns
               /\ \A d \in Clients : req'[d] = req[d] \/ req'[d].op # "resolve"
    BY <2>4 DEF CommitEdit, CommitStatus, FinishSend, returnTables, TypeOK, Done, Idle
  <2> QED
    BY <1>1, <2>1, <2>2, <2>3, <2>4 DEF OrdersNext
<1>2. CASE BillsNext
  <2>1. ASSUME NEW c \in Clients, BeginExtract(c) \/ CreateBill(c) \/ FinishImport(c)
        PROVE  /\ UNCHANGED returns
               /\ \A d \in Clients : req'[d] = req[d] \/ req'[d].op # "resolve"
    BY <2>1 DEF BeginExtract, CreateBill, FinishImport, tables, returnTables, TypeOK, Done, Idle
  <2>2. ASSUME NEW c \in Clients, NEW b \in 1..Len(bills), BeginImport(c, b)
        PROVE  /\ UNCHANGED returns
               /\ \A d \in Clients : req'[d] = req[d] \/ req'[d].op # "resolve"
    BY <2>2 DEF BeginImport, tables, returnTables, TypeOK
  <2>3. ASSUME NEW c \in Clients, NEW p \in Parts,
               SkipItem(c, p) \/ ImportItem(c, p) \/ LoseItem(c, p)
        PROVE  /\ UNCHANGED returns
               /\ \A d \in Clients : req'[d] = req[d] \/ req'[d].op # "resolve"
    <3>1. req'[c].op = req[c].op /\ req[c].op = "import"
      BY <2>3, ImportRequest DEF SkipItem, ImportItem, LoseItem, TypeOK
    <3> QED
      BY <2>3, <3>1 DEF SkipItem, ImportItem, LoseItem, tables, returnTables, TypeOK
  <2> QED
    BY <1>2, <2>1, <2>2, <2>3 DEF BillsNext
<1>3. CASE PurchaseReturnsNext
  <2>1. ASSUME NEW c \in Clients, BeginReturn(c) \/ BeginApply(c) \/ CommitApply(c)
        PROVE  /\ UNCHANGED returns
               /\ \A d \in Clients : req'[d] = req[d] \/ req'[d].op # "resolve"
    BY <2>1 DEF BeginReturn, BeginApply, CommitApply, tables, returnTables, TypeOK, Done, Idle
  <2>2. ASSUME NEW c \in Clients, RetryReturn(c)
        PROVE  /\ UNCHANGED returns
               /\ \A d \in Clients : req'[d] = req[d] \/ req'[d].op # "resolve"
    <3>1. req'[c].op = req[c].op /\ req[c].op = "return"
      BY <2>2, ReturnRequest DEF RetryReturn, TypeOK
    <3> QED
      BY <2>2, <3>1 DEF RetryReturn, tables, returnTables, TypeOK
  <2> QED
    BY <1>3, <2>1, <2>2 DEF PurchaseReturnsNext
<1>4. CASE \E p \in Parts : Sell(p)
  BY <1>4 DEF Sell, returnTables
<1>5. CASE \E c \in Clients : Abandon(c)
  BY <1>5 DEF Abandon, tables, returnTables, TypeOK, Done, Idle
<1>6. CASE UNCHANGED vars
  BY <1>6 DEF vars, tables, returnTables
<1> QED
  BY <1>1, <1>2, <1>3, <1>4, <1>5, <1>6 DEF Next

(* A new return is appended to the others.                                 *)
LEMMA CommitReturnRow ==
    ASSUME TypeOK, NEW c \in Clients, CommitReturn(c)
    PROVE  /\ Len(returns) \in Nat
           /\ Len(returns') = Len(returns) + 1
           /\ returns'[Len(returns) + 1] = NewReturn(req[c])
           /\ \A n \in 1..Len(returns) : returns'[n] = returns[n]
<1>1. /\ NewReturn(req[c]) \in PurchaseReturn
      /\ returns' = Append(returns, NewReturn(req[c]))
  BY CommitReturnSource, ReturnRequest
<1>2. returns \in Seq(PurchaseReturn) /\ Len(returns) \in Nat
  BY DEF TypeOK
<1> HIDE DEF NewReturn
<1> QED
  BY <1>1, <1>2

LEMMA CreditNext == TypeOK /\ CreditedOnce /\ [Next]_vars => CreditedOnce'
<1> SUFFICES ASSUME TypeOK, CreditedOnce, [Next]_vars
             PROVE  CreditedOnce'
  OBVIOUS
<1>1. CASE UNCHANGED returns
  BY <1>1 DEF CreditedOnce
<1>2. ASSUME NEW c \in Clients, CommitReturn(c) PROVE CreditedOnce'
  <2>1. ~NewReturn(req[c]).creditLedgerPosted /\ NewReturn(req[c]).credits = 0
    BY DEF NewReturn
  <2> SUFFICES ASSUME NEW n \in 1..Len(returns')
               PROVE  returns'[n].credits =
                        IF returns'[n].creditLedgerPosted THEN 1 ELSE 0
    BY DEF CreditedOnce
  <2>2. CASE n = Len(returns) + 1
    BY <1>2, <2>1, <2>2, CommitReturnRow
  <2>3. CASE n \in 1..Len(returns)
    BY <1>2, <2>3, CommitReturnRow DEF CreditedOnce
  <2> QED
    BY <1>2, <2>2, <2>3, CommitReturnRow
<1>3. ASSUME NEW c \in Clients, CommitResolve(c) PROVE CreditedOnce'
  <2> DEFINE m == req[c].return
             r == returns[m]
             row == Resolved(r, req[c].to)
  <2>1. /\ m \in 1..Len(returns) /\ req[c].to \in Resolutions
        /\ r \in PurchaseReturn
        /\ returns' = [returns EXCEPT ![m] = row]
        /\ Len(returns') = Len(returns)
    BY <1>3, CommitResolveRow
  <2>2. r.credits = IF r.creditLedgerPosted THEN 1 ELSE 0
    BY <2>1 DEF CreditedOnce
  <2>3. /\ row.creditLedgerPosted <=> (r.creditLedgerPosted \/ PostsCredit(r, req[c].to))
        /\ row.credits = IF PostsCredit(r, req[c].to) THEN r.credits + 1 ELSE r.credits
    BY <2>1, ResolvedType
  <2>4. PostsCredit(r, req[c].to) => ~r.creditLedgerPosted
    BY DEF PostsCredit
  <2> HIDE DEF row, r
  <2>5. row.credits = IF row.creditLedgerPosted THEN 1 ELSE 0
    BY <2>2, <2>3, <2>4
  <2> HIDE DEF m
  <2> QED
    BY <2>1, <2>5 DEF CreditedOnce, TypeOK
<1>4. ASSUME NEW c \in Clients, NEW n \in 1..Len(returns), BeginResolve(c, n)
      PROVE  CreditedOnce'
  BY <1>4 DEF BeginResolve, tables, returnTables, CreditedOnce
<1> QED
  BY <1>1, <1>2, <1>3, <1>4, ReturnWriters

(* A return is credited to its supplier at most once, however often and    *)
(* through whatever resolutions it is patched.                             *)
THEOREM CreditPostedOnce == Spec => []CreditedOnce
<1>1. Init => CreditedOnce
  BY DEF Init, CreditedOnce
<1> QED
  BY <1>1, CreditNext, TypeCorrect, PTL DEF Spec

-----------------------------------------------------------------------------
(* NoLostResolution needs to know what the version of a return stands for: *)
(* while it is the one a client saw, so is the resolution.                 *)
VersionsTell ==
    \A c \in Clients :
        req[c].op = "resolve" =>
            LET r == returns[req[c].return] IN
            /\ req[c].version <= r.version
            /\ req[c].version = r.version => req[c].seen = r.resolution

VersionsInv == TypeOK /\ VersionsTell

LEMMA VersionsNext == VersionsInv /\ [Next]_vars => VersionsInv'
<1> SUFFICES ASSUME VersionsInv, [Next]_vars
             PROVE  VersionsTell'
  BY TypeNext DEF VersionsInv
<1> USE DEF VersionsInv
<1>1. ASSUME NEW d \in Clients, req[d].op = "resolve"
      PROVE  /\ req[d].return \in 1..Len(returns)
             /\ returns[req[d].return] \in PurchaseReturn
             /\ returns[req[d].return].version \in Nat
             /\ req[d].version \in Nat
  <2>1. req[d].return \in 1..Len(returns)
    BY <1>1 DEF TypeOK, RowsExist
  <2>2. returns[req[d].return] \in PurchaseReturn
    BY <2>1 DEF TypeOK
  <2>3. req[d] \in Requests
    BY DEF TypeOK
  <2>4. req[d] \in ReturnReq
    BY <1>1, <2>3 DEF Requests, Idle, OrderReq, BillReq
  <2>5. req[d].version \in Nat
    BY <1>1, <2>4 DEF ReturnReq
  <2> QED
    BY <2>1, <2>2, <2>5 DEF PurchaseReturn
<1>2. CASE /\ UNCHANGED returns
           /\ \A c \in Clients : req'[c] = req[c] \/ req'[c].op # "resolve"
  BY <1>2 DEF VersionsTell
<1>3. ASSUME NEW c \in Clients, CommitReturn(c) PROVE VersionsTell'
  <2>1. \A d \in Clients : req'[d] = req[d] \/ req'[d].op # "resolve"
    BY <1>3 DEF CommitReturn, Done, Idle, TypeOK
  <2>2. \A n \in 1..Len(returns) : returns'[n] = returns[n]
    BY <1>3, CommitReturnRow
  <2> QED
    BY <1>1, <2>1, <2>2 DEF VersionsTell
<1>4. ASSUME NEW c \in Clients, CommitResolve(c) PROVE VersionsTell'
  <2> DEFINE m == req[c].return
             row == Resolved(returns[m], req[c].to)
  <2>1. /\ m \in 1..Len(returns)
        /\ returns' = [returns EXCEPT ![m] = row]
        /\ row.version = returns[m].version + 1
        /\ returns[m].version \in Nat
    BY <1>4, CommitResolveRow, ResolvedType DEF PurchaseReturn
  <2>2. \A d \in Clients : req'[d] = req[d] \/ req'[d].op # "resolve"
    BY <1>4 DEF CommitResolve, Done, Idle, TypeOK
  <2> HIDE DEF row, m
  <2> SUFFICES ASSUME NEW d \in Clients, req'[d].op = "resolve"
               PROVE  /\ req'[d].version <= returns'[req'[d].return].version
                      /\ req'[d].version = returns'[req'[d].return].version
                         => req'[d].seen = returns'[req'[d].return].resolution
    BY DEF VersionsTell
  <2>3. req'[d] = req[d] /\ req[d].op = "resolve"
    BY <2>2
  <2>4. /\ req[d].return \in 1..Len(returns)
        /\ returns[req[d].return].version \in Nat
        /\ req[d].version \in Nat
        /\ req[d].version <= returns[req[d].return].version
        /\ req[d].version = returns[req[d].return].version
           => req[d].seen = returns[req[d].return].resolution
    BY <1>1, <2>3 DEF VersionsTell
  <2>5. CASE req[d].return = m
    <3>1. returns'[m].version = returns[m].version + 1
      BY <2>1 DEF TypeOK
    <3> QED
      BY <2>1, <2>3, <2>4, <2>5, <3>1
  <2>6. CASE req[d].return # m
    <3>1. returns'[req[d].return] = returns[req[d].return]
      BY <2>1, <2>4, <2>6 DEF TypeOK
    <3> QED
      BY <2>3, <2>4, <3>1
  <2> QED
    BY <2>5, <2>6
<1>5. ASSUME NEW c \in Clients, NEW n \in 1..Len(returns), BeginResolve(c, n)
      PROVE  VersionsTell'
  <2>1. PICK to \in Resolutions :
          req' = [req EXCEPT ![c] =
                    [op |-> "resolve", return |-> n, to |-> to,
                     version |-> returns[n].version, seen |-> returns[n].resolution]]
    BY <1>5 DEF BeginResolve
  <2>2. UNCHANGED returns
    BY <1>5 DEF BeginResolve, tables, returnTables
  <2>3. returns[n].version \in Nat
    <3>1. returns[n] \in PurchaseReturn
      BY DEF TypeOK
    <3> QED
      BY <3>1 DEF PurchaseReturn
  <2> SUFFICES ASSUME NEW d \in Clients, req'[d].op = "resolve"
               PROVE  /\ req'[d].version <= returns[req'[d].return].version
                      /\ req'[d].version = returns[req'[d].return].version
                         => req'[d].seen = returns[req'[d].return].resolution
    BY <2>2 DEF VersionsTell
  <2>4. CASE d = c
    BY <2>1, <2>3, <2>4 DEF TypeOK
  <2>5. CASE d # c
    BY <2>1, <2>5 DEF TypeOK, VersionsTell
  <2> QED
    BY <2>4, <2>5
<1> QED
  BY <1>2, <1>3, <1>4, <1>5, ReturnWriters

(* A resolution is only ever replaced by a client that saw it: its version *)
(* number stands for it.                                                   *)
THEOREM ResolutionsNotLost == Spec => NoLostResolution
<1> DEFINE Kept ==
      \A n \in 1..Len(returns) :
          returns'[n].resolution # returns[n].resolution =>
             \E c \in Clients :
                /\ req[c].op = "resolve"
                /\ req[c].return = n
                /\ req[c].seen = returns[n].resolution
                /\ req[c].to = returns'[n].resolution
                /\ req'[c] = Idle
<1>1. Init => VersionsInv
  <2>1. Init => VersionsTell
    BY DEF Init, VersionsTell, Idle
  <2> QED
    BY <2>1, TypeInit DEF VersionsInv
<1>2. VersionsInv /\ [Next]_vars => [Kept]_vars
  <2> SUFFICES ASSUME VersionsInv, [Next]_vars, NEW n \in 1..Len(returns),
                      returns'[n].resolution # returns[n].resolution
               PROVE  \E c \in Clients :
                        /\ req[c].op = "resolve"
                        /\ req[c].return = n
                        /\ req[c].seen = returns[n].resolution
                        /\ req[c].to = returns'[n].resolution
                        /\ req'[c] = Idle
    OBVIOUS
  <2> USE DEF VersionsInv
  <2>1. ~ UNCHANGED returns
    OBVIOUS
  <2>2. ASSUME NEW c \in Clients, CommitReturn(c) PROVE FALSE
    BY <2>2, CommitReturnRow
  <2>3. ASSUME NEW c \in Clients, NEW k \in 1..Len(returns), BeginResolve(c, k)
        PROVE  FALSE
    BY <2>1, <2>3 DEF BeginResolve, tables, returnTables
  <2>4. PICK c \in Clients : CommitResolve(c)
    BY <2>1, <2>2, <2>3, ReturnWriters
  <2> DEFINE m == req[c].return
             row == Resolved(returns[m], req[c].to)
  <2>5. /\ m \in 1..Len(returns)
        /\ returns' = [returns EXCEPT ![m] = row]
        /\ row.resolution = req[c].to
    BY <2>4, CommitResolveRow, ResolvedType
  <2> HIDE DEF row
  <2>6. m = n /\ returns'[n] = row
    BY <2>5 DEF TypeOK
  <2>7. /\ req[c].op = "resolve"
        /\ req[c].version = returns[m].version
        /\ req'[c] = Idle
    BY <2>4 DEF CommitResolve, VersionCurrent, Done, TypeOK
  <2>8. req[c].seen = returns[m].resolution
    BY <2>7 DEF VersionsTell
  <2> QED
    BY <2>5, <2>6, <2>7, <2>8
<1> QED
  BY <1>1, <1>2, VersionsNext, PTL DEF Spec, NoLostResolution

-----------------------------------------------------------------------------
(* ImportedBroughtGoods needs to know what an import being served brought  *)
(* in before it ends: the movements of its bill's number are there, or the *)
(* bill keeps that an item was lost.                                       *)
BroughtIn(number) == \E s \in 1..Len(sources) : sources[s].number = number

ImportersBrought ==
    \A c \in Clients :
        req[c].op = "import" /\ req[c].imported =>
            BroughtIn(bills[req[c].bill].number) \/ bills[req[c].bill].lostCommit

BroughtInv == ImportedBroughtGoods /\ ImportersBrought

(* Movements are never deleted, and keep the number they were written with.*)
LEMMA SourcesLast ==
    ASSUME TypeOK, [Next]_vars
    PROVE  /\ Len(sources) \in Nat /\ Len(sources') \in Nat
           /\ Len(sources) <= Len(sources')
           /\ \A s \in 1..Len(sources) : sources'[s].number = sources[s].number
<1>1. Len(sources) \in Nat
  BY DEF TypeOK
<1>2. CASE UNCHANGED sources
  BY <1>1, <1>2
<1>3. ASSUME NEW c \in Clients, BeginReturn(c) \/ RetryReturn(c)
      PROVE  UNCHANGED sources
  BY <1>3 DEF BeginReturn, RetryReturn, tables, billTables
<1>4. ASSUME NEW c \in Clients, CommitReturn(c)
      PROVE  /\ Len(sources') = Len(sources)
             /\ \A s \in 1..Len(sources) : sources'[s].number = sources[s].number
  <2> DEFINE s == req[c].source
             row == [sources[s] EXCEPT !.returned = @ + req[c].qty]
  <2>1. /\ s \in 1..Len(sources) /\ sources[s] \in Source
        /\ sources' = [sources EXCEPT ![s] = row] /\ Len(sources') = Len(sources)
    BY <1>4, CommitReturnSource, ReturnRequest
  <2>2. row.number = sources[s].number
    BY <2>1 DEF Source
  <2> HIDE DEF row, s
  <2> QED
    BY <2>1, <2>2 DEF TypeOK
<1>5. ASSUME NEW c \in Clients, NEW p \in Parts, ImportItem(c, p)
      PROVE  /\ Len(sources') = Len(sources) + 1
             /\ \A s \in 1..Len(sources) : sources'[s].number = sources[s].number
  BY <1>5 DEF ImportItem, TypeOK
<1> QED
  BY <1>1, <1>2, <1>3, <1>4, <1>5, SourceWriters

LEMMA BroughtStays ==
    ASSUME TypeOK, [Next]_vars
    PROVE  \A number : BroughtIn(number) =>
               \E s \in 1..Len(sources') : sources'[s].number = number
<1> SUFFICES ASSUME NEW number, NEW s \in 1..Len(sources), sources[s].number = number
             PROVE  \E t \in 1..Len(sources') : sources'[t].number = number
  BY DEF BroughtIn
<1>1. s \in 1..Len(sources') /\ sources'[s].number = number
  BY SourcesLast
<1> QED
  BY <1>1

(* Which handlers change a bill, or what an import did so far.             *)
LEMMA BillWriters ==
    ASSUME TypeOK, [Next]_vars
    PROVE  \/ /\ UNCHANGED bills
              /\ \A c \in Clients : req'[c] = req[c] \/ req'[c].op # "import"
           \/ \E c \in Clients : CreateBill(c) \/ FinishImport(c)
           \/ \E c \in Clients, b \in 1..Len(bills) : BeginImport(c, b)
           \/ \E c \in Clients, p \in Parts :
                 ImportItem(c, p) \/ SkipItem(c, p) \/ LoseItem(c, p)
<1>1. CASE OrdersNext
  <2>1. CASE \E cart \in Carts : CreateOrder(cart)
    BY <2>1 DEF CreateOrder, billTables
  <2>2. CASE \E o \in 1..Len(orders) : CloneOrder(o)
    BY <2>2 DEF CloneOrder, billTables
  <2>3. ASSUME NEW c \in Clients, NEW o \in 1..Len(orders),
               BeginEdit(c, o) \/ BeginStatus(c, o) \/ BeginSend(c, o)
        PROVE  /\ UNCHANGED bills
               /\ \A d \in Clients : req'[d] = req[d] \/ req'[d].op # "import"
    BY <2>3 DEF BeginEdit, BeginStatus, BeginSend, tables, billTables, TypeOK
  <2>4. ASSUME NEW c \in Clients, CommitEdit(c) \/ CommitStatus(c) \/ FinishSend(c)
        PROVE  /\ UNCHANGED bills
               /\ \A d \in Clients : req'[d] = req[d] \/ req'[d].op # "import"
    BY <2>4 DEF CommitEdit, CommitStatus, FinishSend, billTables, TypeOK, Done, Idle
  <2> QED
    BY <1>1, <2>1, <2>2, <2>3, <2>4 DEF OrdersNext
<1>2. CASE BillsNext
  <2>1. ASSUME NEW c \in Clients, BeginExtract(c)
        PROVE  /\ UNCHANGED bills
               /\ \A d \in Clients : req'[d] = req[d] \/ req'[d].op # "import"
    BY <2>1 DEF BeginExtract, tables, billTables, TypeOK
  <2> QED
    BY <1>2, <2>1 DEF BillsNext
<1>3. CASE PurchaseReturnsNext
  <2>1. ASSUME NEW c \in Clients, CommitReturn(c) \/ CommitResolve(c) \/ CommitApply(c)
        PROVE  /\ UNCHANGED bills
               /\ \A d \in Clients : req'[d] = req[d] \/ req'[d].op # "import"
    BY <2>1 DEF CommitReturn, CommitResolve, CommitApply, billTables, TypeOK, Done, Idle
  <2>2. ASSUME NEW c \in Clients, BeginReturn(c) \/ BeginApply(c) \/ \E n \in 1..Len(returns) : BeginResolve(c, n)
        PROVE  /\ UNCHANGED bills
               /\ \A d \in Clients : req'[d] = req[d] \/ req'[d].op # "import"
    BY <2>2 DEF BeginReturn, BeginApply, BeginResolve, tables, billTables, TypeOK
  <2>3. ASSUME NEW c \in Clients, RetryReturn(c)
        PROVE  /\ UNCHANGED bills
               /\ \A d \in Clients : req'[d] = req[d] \/ req'[d].op # "import"
    <3>1. req'[c].op = req[c].op /\ req[c].op = "return"
      BY <2>3, ReturnRequest DEF RetryReturn, TypeOK
    <3> QED
      BY <2>3, <3>1 DEF RetryReturn, tables, billTables, TypeOK
  <2> QED
    BY <1>3, <2>1, <2>2, <2>3 DEF PurchaseReturnsNext
<1>4. CASE \E p \in Parts : Sell(p)
  BY <1>4 DEF Sell, billTables
<1>5. CASE \E c \in Clients : Abandon(c)
  BY <1>5 DEF Abandon, tables, billTables, TypeOK, Done, Idle
<1>6. CASE UNCHANGED vars
  BY <1>6 DEF vars, tables, billTables
<1> QED
  BY <1>1, <1>2, <1>3, <1>4, <1>5, <1>6 DEF Next

(* The bills and the imports of a step that finishes no import: a bill is  *)
(* new or as it was, an import is new, as it was, or brought an item in.   *)
LEMMA BroughtKept ==
    ASSUME TypeOK, BroughtInv, [Next]_vars,
           Len(bills') \in Nat, Len(bills') >= Len(bills),
           \A b \in 1..Len(bills) :
              /\ bills'[b].number = bills[b].number
              /\ bills'[b].status = "IMPORTED" => bills[b].status = "IMPORTED"
              /\ bills[b].lostCommit => bills'[b].lostCommit,
           \A b \in 1..Len(bills') : b \in 1..Len(bills) \/ bills'[b].status # "IMPORTED",
           \A c \in Clients :
              req'[c].op = "import" /\ req'[c].imported =>
                 /\ req[c].op = "import" /\ req'[c].bill = req[c].bill
                 /\ \/ req[c].imported
                    \/ bills'[req[c].bill].lostCommit
                    \/ \E s \in 1..Len(sources') :
                          sources'[s].number = bills[req[c].bill].number
    PROVE  BroughtInv'
<1>1. ImportedBroughtGoods'
  <2> SUFFICES ASSUME NEW b \in 1..Len(bills'), bills'[b].status = "IMPORTED",
                      ~ bills'[b].lostCommit
               PROVE  \E s \in 1..Len(sources') : sources'[s].number = bills'[b].number
    BY DEF ImportedBroughtGoods
  <2>1. /\ b \in 1..Len(bills) /\ bills'[b].number = bills[b].number
        /\ bills[b].status = "IMPORTED" /\ ~ bills[b].lostCommit
    OBVIOUS
  <2>2. BroughtIn(bills[b].number)
    BY <2>1 DEF BroughtInv, ImportedBroughtGoods, BroughtIn
  <2> QED
    BY <2>1, <2>2, BroughtStays
<1>2. ImportersBrought'
  <2> SUFFICES ASSUME NEW c \in Clients, req'[c].op = "import", req'[c].imported,
                      ~ bills'[req'[c].bill].lostCommit
               PROVE  \E s \in 1..Len(sources') : sources'[s].number = bills'[req'[c].bill].number
    BY DEF ImportersBrought, BroughtIn
  <2>1. /\ req[c].op = "import" /\ req'[c].bill = req[c].bill
        /\ \/ req[c].imported
           \/ \E s \in 1..Len(sources') : sources'[s].number = bills[req[c].bill].number
    OBVIOUS
  <2>2. /\ req[c].bill \in 1..Len(bills)
        /\ bills'[req[c].bill].number = bills[req[c].bill].number
        /\ ~ bills[req[c].bill].lostCommit
    BY <2>1, ImportRequest
  <2>3. CASE req[c].imported
    <3>1. BroughtIn(bills[req[c].bill].number)
      BY <2>1, <2>2, <2>3 DEF BroughtInv, ImportersBrought
    <3> QED
      BY <2>1, <2>2, <3>1, BroughtStays
  <2> QED
    BY <2>1, <2>2, <2>3
<1> QED
  BY <1>1, <1>2 DEF BroughtInv

LEMMA BroughtNext ==
    ASSUME TypeOK, BroughtInv, [Next]_vars
    PROVE  BroughtInv'
<1>1. Len(bills) \in Nat
  BY DEF TypeOK
<1>2. ASSUME UNCHANGED bills,
             \A c \in Clients : req'[c] = req[c] \/ req'[c].op # "import" \/ ~ req'[c].imported
      PROVE  BroughtInv'
  BY <1>1, <1>2, BroughtKept
<1>3. ASSUME NEW c \in Clients, NEW b \in 1..Len(bills), BeginImport(c, b)
      PROVE  BroughtInv'
  <2>1. PICK q : q.imported = FALSE /\ req' = [req EXCEPT ![c] = q]
    BY <1>3 DEF BeginImport
  <2>2. UNCHANGED bills
    BY <1>3 DEF BeginImport, tables, billTables
  <2> QED
    BY <1>2, <2>1, <2>2 DEF TypeOK
<1>4. ASSUME NEW c \in Clients, NEW p \in Parts, SkipItem(c, p)
      PROVE  BroughtInv'
  <2>1. /\ req'[c].bill = req[c].bill /\ req'[c].imported = req[c].imported
        /\ req[c].op = "import" /\ UNCHANGED bills
        /\ \A d \in Clients : d # c => req'[d] = req[d]
    BY <1>4, ImportRequest DEF SkipItem, TypeOK, tables, billTables
  <2> QED
    BY <1>1, <2>1, BroughtKept
<1>5. ASSUME NEW c \in Clients, NEW p \in Parts, ImportItem(c, p)
      PROVE  BroughtInv'
  <2> DEFINE row == NewSource(req[c], p)
  <2>1. /\ req[c].op = "import" /\ req'[c].bill = req[c].bill /\ UNCHANGED bills
        /\ \A d \in Clients : d # c => req'[d] = req[d]
    BY <1>5, ImportRequest DEF ImportItem, TypeOK
  <2>2. sources' = Append(sources, row) /\ row.number = bills[req[c].bill].number
    BY <1>5 DEF ImportItem, NewSource
  <2> HIDE DEF row
  <2>3. Len(sources) + 1 \in 1..Len(sources') /\ sources'[Len(sources) + 1] = row
    BY <2>2 DEF TypeOK
  <2>4. \E s \in 1..Len(sources') : sources'[s].number = bills[req[c].bill].number
    BY <2>2, <2>3
  <2> QED
    BY <1>1, <2>1, <2>4, BroughtKept
<1>6. ASSUME NEW c \in Clients, CreateBill(c)
      PROVE  BroughtInv'
  <2> DEFINE row == [number |-> req[c].number, status |-> "PENDING_REVIEW",
                     lostCommit |-> FALSE]
  <2>1. bills' = Append(bills, row) /\ row.status # "IMPORTED"
    BY <1>6 DEF CreateBill
  <2> HIDE DEF row
  <2>2. /\ Len(bills') = Len(bills) + 1
        /\ \A b \in 1..Len(bills) : bills'[b] = bills[b]
        /\ bills'[Len(bills) + 1] = row
    BY <2>1 DEF TypeOK
  <2>3. \A b \in 1..Len(bills') : b \in 1..Len(bills) \/ bills'[b].status # "IMPORTED"
    BY <1>1, <2>1, <2>2
  <2>4. \A d \in Clients : req'[d] = req[d] \/ req'[d].op # "import"
    BY <1>6 DEF CreateBill, Done, Idle, TypeOK
  <2> QED
    BY <1>1, <2>2, <2>3, <2>4, BroughtKept
<1>7. ASSUME NEW c \in Clients, FinishImport(c)
      PROVE  BroughtInv'
  <2> DEFINE b == req[c].bill
             row == Outcome(bills[b], req[c].imported)
  <2>1. /\ req[c].op = "import" /\ b \in 1..Len(bills) /\ bills[b] \in Bill
        /\ bills' = [bills EXCEPT ![b] = row]
    BY <1>7, ImportRequest DEF FinishImport
  <2>2. /\ row.number = bills[b].number /\ row.lostCommit = bills[b].lostCommit
        /\ row.status = "IMPORTED" => bills[b].status = "IMPORTED" \/ req[c].imported
    BY <2>1 DEF Outcome, Bill
  <2>3. UNCHANGED sources /\ \A d \in Clients : req'[d] = req[d] \/ req'[d].op # "import"
    BY <1>7 DEF FinishImport, Done, Idle, TypeOK
  <2> HIDE DEF row
  <2>4. /\ Len(bills') = Len(bills)
        /\ \A k \in 1..Len(bills) : bills'[k] = IF k = b THEN row ELSE bills[k]
    BY <2>1 DEF TypeOK
  <2>5. bills[b].status = "IMPORTED" \/ req[c].imported =>
          BroughtIn(bills[b].number) \/ bills[b].lostCommit
    BY <2>1 DEF BroughtInv, ImportedBroughtGoods, ImportersBrought, BroughtIn
  <2>6. ImportedBroughtGoods'
    <3> SUFFICES ASSUME NEW k \in 1..Len(bills), bills'[k].status = "IMPORTED",
                        ~ bills'[k].lostCommit
                 PROVE  BroughtIn(bills'[k].number)
      BY <2>3, <2>4 DEF ImportedBroughtGoods, BroughtIn
    <3>1. CASE k = b
      BY <2>1, <2>2, <2>4, <2>5, <3>1
    <3>2. CASE k # b
      BY <2>4, <3>2 DEF BroughtInv, ImportedBroughtGoods, BroughtIn
    <3> QED
      BY <3>1, <3>2
  <2>7. ImportersBrought'
    <3> SUFFICES ASSUME NEW d \in Clients, req'[d].op = "import", req'[d].imported
                 PROVE  BroughtIn(bills'[req'[d].bill].number) \/ bills'[req'[d].bill].lostCommit
      BY <2>3 DEF ImportersBrought, BroughtIn
    <3>1. req'[d] = req[d] /\ req[d].bill \in 1..Len(bills)
      BY <2>3, ImportRequest
    <3>2. /\ bills'[req[d].bill].number = bills[req[d].bill].number
          /\ bills'[req[d].bill].lostCommit = bills[req[d].bill].lostCommit
      BY <2>2, <2>4, <3>1
    <3> QED
      BY <3>1, <3>2 DEF BroughtInv, ImportersBrought
  <2> QED
    BY <2>6, <2>7 DEF BroughtInv
<1>8. ASSUME NEW c \in Clients, NEW p \in Parts, LoseItem(c, p)
      PROVE  BroughtInv'
  <2> DEFINE b == req[c].bill
             row == [bills[b] EXCEPT !.lostCommit = TRUE]
  <2>1. /\ req[c].op = "import" /\ req'[c].bill = b
        /\ \A d \in Clients : d # c => req'[d] = req[d]
        /\ b \in 1..Len(bills) /\ bills[b] \in Bill
        /\ bills' = [bills EXCEPT ![b] = row]
    BY <1>8, ImportRequest DEF LoseItem, TypeOK
  <2>2. row.number = bills[b].number /\ row.status = bills[b].status /\ row.lostCommit
    BY <2>1 DEF Bill
  <2> HIDE DEF row, b
  <2>3. /\ Len(bills') = Len(bills)
        /\ \A k \in 1..Len(bills) : bills'[k] = IF k = b THEN row ELSE bills[k]
    BY <2>1 DEF TypeOK
  <2>4. /\ \A k \in 1..Len(bills) :
              /\ bills'[k].number = bills[k].number
              /\ bills'[k].status = "IMPORTED" => bills[k].status = "IMPORTED"
              /\ bills[k].lostCommit => bills'[k].lostCommit
        /\ bills'[b].lostCommit
    BY <2>1, <2>2, <2>3
  <2>5. \A d \in Clients :
           req'[d].op = "import" /\ req'[d].imported =>
              /\ req[d].op = "import" /\ req'[d].bill = req[d].bill
              /\ req[d].imported \/ bills'[req[d].bill].lostCommit
    BY <2>1, <2>4 DEF b
  <2> QED
    BY <1>1, <2>3, <2>4, <2>5, BroughtKept
<1> QED
  BY <1>2, <1>3, <1>4, <1>5, <1>6, <1>7, <1>8, BillWriters

(* A bill that counts as imported brought in at least one item, unless one *)
(* it had counted did not commit, however many of its items failed and     *)
(* whatever other imports ran at the same time (purchaseBills.js POST      *)
(* /:id/import).                                                           *)
THEOREM ImportsBringGoods == Spec => []ImportedBroughtGoods
<1>1. Init => BroughtInv
  BY DEF Init, BroughtInv, ImportedBroughtGoods, ImportersBrought, Idle
<1>2. TypeOK /\ BroughtInv /\ [Next]_vars => BroughtInv'
  BY BroughtNext
<1>3. BroughtInv => ImportedBroughtGoods
  BY DEF BroughtInv
<1> QED
  BY <1>1, <1>2, <1>3, TypeCorrect, PTL DEF Spec

-----------------------------------------------------------------------------
(* What the returns credited, row by row.                                  *)
CreditOf(r) == r.credits * r.qty
CreditsOf(rows) == [n \in 1..Len(rows) |-> CreditOf(rows[n])]

LEMMA CreditsType ==
    ASSUME NEW rows \in Seq(PurchaseReturn)
    PROVE  /\ CreditsOf(rows) \in [1..Len(rows) -> Int]
           /\ SumFunction(CreditsOf(rows)) \in Int
<1>1. ASSUME NEW n \in 1..Len(rows) PROVE CreditOf(rows[n]) \in Int
  <2>1. rows[n] \in PurchaseReturn
    OBVIOUS
  <2>2. rows[n].credits \in Nat /\ rows[n].qty \in Nat
    BY <2>1, ReturnsAssumption DEF PurchaseReturn
  <2> QED
    BY <2>2 DEF CreditOf
<1>2. CreditsOf(rows) \in [1..Len(rows) -> Int]
  BY <1>1 DEF CreditsOf
<1> DEFINE S == 1..Len(rows)
<1>3. IsFiniteSet(S)
  BY FS_Interval
<1> HIDE DEF S
<1> QED
  BY <1>2, <1>3, SumOfInts DEF S

LEMMA SupplierLedgerSum ==
    SupplierLedgerMatches <=> owed = SumFunction(CreditsOf(returns)) - applied
BY DEF SupplierLedgerMatches, CreditsOf, CreditOf

(* A new return has credited nothing.                                      *)
LEMMA ReturnCreditsNothing ==
    ASSUME TypeOK, TypeOK', NEW c \in Clients, CommitReturn(c)
    PROVE  SumFunction(CreditsOf(returns')) = SumFunction(CreditsOf(returns))
<1> DEFINE n == Len(returns)
           new == NewReturn(req[c])
<1>1. /\ n \in Nat /\ Len(returns') = n + 1
      /\ returns'[n + 1] = new
      /\ \A k \in 1..n : returns'[k] = returns[k]
  BY CommitReturnRow
<1>2. CreditOf(new) = 0
  <2>1. new.credits = 0 /\ new.qty \in Int
    <3>1. req[c].qty \in Nat
      BY ReturnRequest DEF CommitReturn
    <3> QED
      BY <3>1 DEF NewReturn
  <2> QED
    BY <2>1 DEF CreditOf
<1>3. /\ CreditsOf(returns) \in [1..n -> Int]
      /\ CreditsOf(returns') \in [1..(n + 1) -> Int]
      /\ SumFunction(CreditsOf(returns)) \in Int
  BY <1>1, CreditsType DEF TypeOK
<1> HIDE DEF new
<1>4. /\ \A k \in 1..n : CreditsOf(returns')[k] = CreditsOf(returns)[k]
      /\ CreditsOf(returns')[n + 1] = 0
  BY <1>1, <1>2 DEF CreditsOf
<1> HIDE DEF n
<1>5. SumFunction(CreditsOf(returns')) = SumFunction(CreditsOf(returns)) + CreditsOf(returns')[n + 1]
  BY <1>1, <1>3, <1>4, SumRowAppended
<1> QED
  BY <1>3, <1>4, <1>5

(* A resolution adds to the sum what it posts to the ledger.               *)
LEMMA ResolutionPosted ==
    ASSUME TypeOK, TypeOK', SupplierLedgerMatches, NEW c \in Clients, CommitResolve(c)
    PROVE  SupplierLedgerMatches'
<1> DEFINE m == req[c].return
           r == returns[m]
           row == Resolved(r, req[c].to)
           posts == PostsCredit(r, req[c].to)
<1>1. /\ m \in 1..Len(returns) /\ req[c].to \in Resolutions
      /\ r \in PurchaseReturn
      /\ returns' = [returns EXCEPT ![m] = row]
      /\ Len(returns') = Len(returns)
  BY CommitResolveRow
<1>2. r.credits \in Nat /\ r.qty \in Nat
  BY <1>1, ReturnsAssumption DEF PurchaseReturn
<1>3. row.qty = r.qty /\ row.credits = IF posts THEN r.credits + 1 ELSE r.credits
  BY <1>1, ResolvedType
<1>4. owed' = (IF posts THEN owed + r.qty - 0 ELSE owed) /\ applied' = applied
  BY DEF CommitResolve, LedgerBalance
<1> HIDE DEF row, r, posts
<1>5. CreditOf(row) = CreditOf(r) + (IF posts THEN r.qty ELSE 0)
  <2>1. (r.credits + 1) * r.qty = r.credits * r.qty + r.qty
    BY <1>2
  <2> QED
    BY <1>2, <1>3, <2>1 DEF CreditOf
<1>6. CreditOf(r) \in Int
  BY <1>2 DEF CreditOf
<1>7. /\ Len(returns) \in Nat
      /\ CreditsOf(returns) \in [1..Len(returns) -> Int]
      /\ CreditsOf(returns') \in [1..Len(returns) -> Int]
      /\ SumFunction(CreditsOf(returns)) \in Int
  <2>1. /\ CreditsOf(returns) \in [1..Len(returns) -> Int]
        /\ SumFunction(CreditsOf(returns)) \in Int
    BY CreditsType DEF TypeOK
  <2>2. CreditsOf(returns') \in [1..Len(returns') -> Int]
    BY CreditsType DEF TypeOK
  <2>3. Len(returns) \in Nat
    BY DEF TypeOK
  <2> QED
    BY <1>1, <2>1, <2>2, <2>3
<1> HIDE DEF m
<1>8. /\ \A k \in 1..Len(returns) : k # m => CreditsOf(returns')[k] = CreditsOf(returns)[k]
      /\ CreditsOf(returns')[m] = CreditOf(row)
      /\ CreditsOf(returns)[m] = CreditOf(r)
  BY <1>1 DEF CreditsOf, TypeOK, r, m
<1>9. SumFunction(CreditsOf(returns')) =
        SumFunction(CreditsOf(returns)) - CreditsOf(returns)[m] + CreditsOf(returns')[m]
  BY <1>1, <1>7, <1>8, SumRowUpdated
<1>10. owed = SumFunction(CreditsOf(returns)) - applied
  BY SupplierLedgerSum
<1>11. owed' = SumFunction(CreditsOf(returns')) - applied'
  <2>1. SumFunction(CreditsOf(returns')) =
          SumFunction(CreditsOf(returns)) - CreditOf(r) + CreditOf(row)
    BY <1>8, <1>9
  <2>2. owed \in Int /\ applied \in Nat
    BY DEF TypeOK
  <2>3. CASE posts
    <3>1. CreditOf(row) = CreditOf(r) + r.qty /\ owed' = owed + r.qty
      BY <1>2, <1>4, <1>5, <2>2, <2>3
    <3> QED
      BY <1>2, <1>4, <1>6, <1>7, <1>10, <2>1, <2>2, <3>1
  <2>4. CASE ~posts
    <3>1. CreditOf(row) = CreditOf(r) /\ owed' = owed
      BY <1>4, <1>5, <1>6, <2>4
    <3> QED
      BY <1>4, <1>6, <1>7, <1>10, <2>1, <2>2, <3>1
  <2> QED
    BY <2>3, <2>4
<1> QED
  BY <1>11 DEF SupplierLedgerMatches, CreditsOf, CreditOf

(* Only a resolution and an application of credit write to the ledger.     *)
LEMMA LedgerWriters ==
    ASSUME TypeOK, [Next]_vars
    PROVE  \/ UNCHANGED <<owed, applied>>
           \/ \E c \in Clients : CommitResolve(c) \/ CommitApply(c)
<1>1. CASE OrdersNext
  BY <1>1 DEF OrdersNext, CreateOrder, CloneOrder, BeginEdit, BeginStatus, BeginSend,
     CommitEdit, CommitStatus, FinishSend, tables, returnTables
<1>2. CASE BillsNext
  BY <1>2 DEF BillsNext, BeginExtract, CreateBill, FinishImport, BeginImport, ImportItem,
     SkipItem, LoseItem, tables, returnTables
<1>3. CASE PurchaseReturnsNext
  BY <1>3 DEF PurchaseReturnsNext, BeginReturn, CommitReturn, RetryReturn, BeginResolve,
     BeginApply, tables, returnTables
<1>4. CASE (\E p \in Parts : Sell(p)) \/ (\E c \in Clients : Abandon(c)) \/ UNCHANGED vars
  BY <1>4 DEF Sell, Abandon, vars, tables, returnTables
<1> QED
  BY <1>1, <1>2, <1>3, <1>4 DEF Next

LEMMA LedgerNext ==
    ASSUME TypeOK, TypeOK', SupplierLedgerMatches, [Next]_vars
    PROVE  SupplierLedgerMatches'
<1>1. owed = SumFunction(CreditsOf(returns)) - applied
  BY SupplierLedgerSum
<1>2. ASSUME owed' = SumFunction(CreditsOf(returns')) - applied'
      PROVE  SupplierLedgerMatches'
  BY <1>2 DEF SupplierLedgerMatches, CreditsOf, CreditOf
<1>3. ASSUME NEW c \in Clients, CommitResolve(c)
      PROVE  SupplierLedgerMatches'
  BY <1>3, ResolutionPosted
<1>4. ASSUME NEW c \in Clients, CommitApply(c)
      PROVE  SupplierLedgerMatches'
  <2>1. /\ owed' = owed + 0 - req[c].amount /\ applied' = applied + req[c].amount
        /\ returns' = returns
    BY <1>4 DEF CommitApply, LedgerBalance
  <2>2. req[c].amount \in Nat
    BY <1>4, RequestKind DEF CommitApply, TypeOK
  <2>3. SumFunction(CreditsOf(returns)) \in Int /\ owed \in Int /\ applied \in Nat
    BY CreditsType DEF TypeOK
  <2> QED
    BY <1>1, <1>2, <2>1, <2>2, <2>3
<1>5. ASSUME UNCHANGED <<owed, applied>>, ~ \E c \in Clients : CommitResolve(c)
      PROVE  SupplierLedgerMatches'
  <2>1. CASE UNCHANGED returns
    BY <1>1, <1>2, <1>5, <2>1
  <2>2. ASSUME NEW c \in Clients, CommitReturn(c)
        PROVE  SupplierLedgerMatches'
    BY <1>1, <1>2, <1>5, <2>2, ReturnCreditsNothing
  <2>3. ASSUME NEW c \in Clients, NEW n \in 1..Len(returns), BeginResolve(c, n)
        PROVE  UNCHANGED returns
    BY <2>3 DEF BeginResolve, tables, returnTables
  <2> QED
    BY <1>5, <2>1, <2>2, <2>3, ReturnWriters
<1> QED
  BY <1>3, <1>4, <1>5, LedgerWriters

(* What the supplier owes is what its returns were credited with, less     *)
(* what was applied to other purchases: what is posted has its sign and    *)
(* its amount, whatever races (purchaseReturns.js PATCH /:id/resolution, parties.js    *)
(* apply-supplier-credit).                                                 *)
THEOREM SupplierLedgerBalances == Spec => []SupplierLedgerMatches
<1>1. Init => SupplierLedgerMatches
  <2> SUFFICES ASSUME Init
               PROVE  owed = SumFunction(CreditsOf(returns)) - applied
    BY SupplierLedgerSum
  <2>1. owed = 0 /\ applied = 0 /\ CreditsOf(returns) \in [{} -> Int]
    BY DEF Init, CreditsOf
  <2> HIDE DEF CreditsOf
  <2>2. \A fun \in [{} -> Int] : SumFunction(fun) = 0
    BY SumOfNone
  <2>3. SumFunction(CreditsOf(returns)) = 0
    BY <2>1, <2>2
  <2> QED
    BY <2>1, <2>3
<1>2. TypeOK /\ TypeOK' /\ SupplierLedgerMatches /\ [Next]_vars => SupplierLedgerMatches'
  BY LedgerNext
<1> QED
  BY <1>1, <1>2, TypeCorrect, PTL DEF Spec
-----------------------------------------------------------------------------
(* ReturnedWithinImported needs to know what a return being served has     *)
(* read: as long as the sum of earlier returns is what it saw, the check   *)
(* it made against that sum still holds.  Quantities of movements never    *)
(* change.                                                                 *)
RequestsFit ==
    \A c \in Clients :
        req[c].op = "return" =>
            req[c].qty - req[c].again <= sources[req[c].source].qty - req[c].seen

ImportsInv == TypeOK /\ ReturnedWithinImported /\ RequestsFit

(* What the rows say of the lines that name a movement again.              *)
AgainOf(rows, s) == [n \in 1..Len(rows) |-> IF rows[n].source = s THEN rows[n].again ELSE 0]

LEMMA AgainSums ==
    ReturnedWithinImported <=>
        \A s \in 1..Len(sources) :
            sources[s].returned <= sources[s].qty + SumFunction(AgainOf(returns, s))
BY DEF ReturnedWithinImported, NamedAgain, AgainOf

LEMMA AgainType ==
    ASSUME NEW rows \in Seq(PurchaseReturn), NEW s
    PROVE  /\ AgainOf(rows, s) \in [1..Len(rows) -> Nat]
           /\ AgainOf(rows, s) \in [1..Len(rows) -> Int]
           /\ SumFunction(AgainOf(rows, s)) \in Nat
<1>1. \A n \in 1..Len(rows) : rows[n] \in PurchaseReturn
  OBVIOUS
<1>2. \A n \in 1..Len(rows) : rows[n].again \in Nat
  BY <1>1 DEF PurchaseReturn
<1>3. AgainOf(rows, s) \in [1..Len(rows) -> Nat]
  BY <1>2 DEF AgainOf
<1>4. AgainOf(rows, s) \in [1..Len(rows) -> Int]
  BY <1>2 DEF AgainOf
<1>5. IsFiniteSet(1..Len(rows))
  BY FS_Interval
<1> HIDE DEF AgainOf
<1> QED
  BY <1>3, <1>4, <1>5, SumOfNats

LEMMA AgainAdded ==
    ASSUME TypeOK, TypeOK', NEW c \in Clients, CommitReturn(c), NEW s
    PROVE  SumFunction(AgainOf(returns', s)) =
             SumFunction(AgainOf(returns, s)) + (IF req[c].source = s THEN req[c].again ELSE 0)
<1> DEFINE n == Len(returns)
           new == NewReturn(req[c])
<1>1. /\ n \in Nat /\ Len(returns') = n + 1
      /\ returns'[n + 1] = new
      /\ \A k \in 1..n : returns'[k] = returns[k]
  BY CommitReturnRow
<1>2. new.source = req[c].source /\ new.again = req[c].again
  BY DEF NewReturn
<1>3. /\ AgainOf(returns, s) \in [1..n -> Int]
      /\ AgainOf(returns', s) \in [1..(n + 1) -> Int]
  BY <1>1, AgainType DEF TypeOK
<1> HIDE DEF new
<1>4. /\ \A k \in 1..n : AgainOf(returns', s)[k] = AgainOf(returns, s)[k]
      /\ AgainOf(returns', s)[n + 1] = IF req[c].source = s THEN req[c].again ELSE 0
  BY <1>1, <1>2 DEF AgainOf
<1> HIDE DEF n, AgainOf
<1>5. SumFunction(AgainOf(returns', s)) = SumFunction(AgainOf(returns, s)) + AgainOf(returns', s)[n + 1]
  BY <1>1, <1>3, <1>4, SumRowAppended
<1> QED
  BY <1>4, <1>5

LEMMA AgainStays ==
    ASSUME TypeOK, [Next]_vars, ~ \E c \in Clients : CommitReturn(c)
    PROVE  \A s : AgainOf(returns', s) = AgainOf(returns, s)
<1>1. CASE UNCHANGED returns
  BY <1>1 DEF AgainOf
<1>2. ASSUME NEW c \in Clients, CommitResolve(c)
      PROVE  \A s : AgainOf(returns', s) = AgainOf(returns, s)
  <2> DEFINE m == req[c].return
             row == Resolved(returns[m], req[c].to)
  <2>1. /\ m \in 1..Len(returns) /\ returns' = [returns EXCEPT ![m] = row]
        /\ Len(returns') = Len(returns)
        /\ row.source = returns[m].source /\ row.again = returns[m].again
    BY <1>2, CommitResolveRow, ResolvedType
  <2> HIDE DEF row, m
  <2>2. \A n \in 1..Len(returns) : /\ returns'[n].source = returns[n].source
                                   /\ returns'[n].again = returns[n].again
    BY <2>1 DEF TypeOK
  <2> QED
    BY <2>1, <2>2 DEF AgainOf
<1>3. ASSUME NEW c \in Clients, NEW n \in 1..Len(returns), BeginResolve(c, n)
      PROVE  UNCHANGED returns
  BY <1>3 DEF BeginResolve, tables, returnTables
<1> QED
  BY <1>1, <1>2, <1>3, ReturnWriters

LEMMA RequestsFitKept ==
    ASSUME TypeOK, RequestsFit, Len(sources') >= Len(sources),
           \A s \in 1..Len(sources) : sources'[s].qty = sources[s].qty,
           \A c \in Clients : req'[c] = req[c] \/ req'[c].op # "return"
    PROVE  RequestsFit'
<1> SUFFICES ASSUME NEW c \in Clients, req'[c].op = "return"
             PROVE  req'[c].qty - req'[c].again <= sources'[req'[c].source].qty - req'[c].seen
  BY DEF RequestsFit
<1>1. req'[c] = req[c] /\ req[c].op = "return"
  OBVIOUS
<1>2. req[c].source \in 1..Len(sources)
  BY <1>1, ReturnRequest
<1> QED
  BY <1>1, <1>2 DEF RequestsFit

LEMMA ImportsNext == ImportsInv /\ [Next]_vars => ImportsInv'
<1> SUFFICES ASSUME ImportsInv, [Next]_vars
             PROVE  ReturnedWithinImported' /\ RequestsFit'
  BY TypeNext DEF ImportsInv
<1> USE DEF ImportsInv
<1>a. TypeOK'
  BY TypeNext
<1>b. ASSUME UNCHANGED sources, ~ \E c \in Clients : CommitReturn(c)
      PROVE  ReturnedWithinImported'
  <2>1. \A s : AgainOf(returns', s) = AgainOf(returns, s)
    BY <1>b, AgainStays
  <2>2. \A s \in 1..Len(sources) :
           sources[s].returned <= sources[s].qty + SumFunction(AgainOf(returns', s))
    BY <2>1, AgainSums
  <2> QED
    BY <1>b, <2>2 DEF ReturnedWithinImported, NamedAgain, AgainOf
<1>1. ASSUME UNCHANGED sources,
             \A c \in Clients : req'[c] = req[c] \/ req'[c].op # "return",
             ~ \E c \in Clients : CommitReturn(c)
      PROVE  ReturnedWithinImported' /\ RequestsFit'
  <2>1. Len(sources) \in Nat
    BY DEF TypeOK
  <2> QED
    BY <1>1, <1>b, <2>1, RequestsFitKept
<1>2. ASSUME NEW c \in Clients, BeginReturn(c), ~ \E d \in Clients : CommitReturn(d)
      PROVE  ReturnedWithinImported' /\ RequestsFit'
  <2>1. PICK s \in 1..Len(sources), form \in ReturnForms, party \in BOOLEAN,
             resolution \in Resolutions :
          /\ Returnable(sources[s], form)
          /\ req' = [req EXCEPT ![c] =
                       [op |-> "return", source |-> s, qty |-> form.qty, again |-> form.again, party |-> party,
                        resolution |-> resolution, seen |-> sources[s].returned,
                        attempt |-> 1]]
    BY <1>2 DEF BeginReturn
  <2>2. UNCHANGED sources
    BY <1>2 DEF BeginReturn, tables, billTables
  <2>3. ASSUME NEW d \in Clients, req'[d].op = "return"
        PROVE  req'[d].qty - req'[d].again <= sources[req'[d].source].qty - req'[d].seen
    <3>1. CASE d = c
      BY <2>1, <3>1 DEF TypeOK, Returnable
    <3>2. CASE d # c
      BY <2>1, <2>3, <3>2 DEF TypeOK, RequestsFit
    <3> QED
      BY <3>1, <3>2
  <2> QED
    BY <1>2, <1>b, <2>2, <2>3 DEF RequestsFit
<1>3. ASSUME NEW c \in Clients, RetryReturn(c), ~ \E d \in Clients : CommitReturn(d)
      PROVE  ReturnedWithinImported' /\ RequestsFit'
  <2>1. /\ req' = [req EXCEPT ![c] = [req[c] EXCEPT
                     !.seen = sources[req[c].source].returned, !.attempt = 2]]
        /\ Returnable(sources[req[c].source], req[c])
        /\ req[c].op = "return"
        /\ UNCHANGED sources
    BY <1>3 DEF RetryReturn, tables, billTables, TypeOK
  <2>2. req[c] \in [op : {"return"}, source : Nat, qty : Nat, again : Nat,
                    party : BOOLEAN, resolution : Resolutions,
                    seen : Nat, attempt : {1, 2}]
    BY <2>1, ReturnRequest
  <2>3. ASSUME NEW d \in Clients, req'[d].op = "return"
        PROVE  req'[d].qty - req'[d].again <= sources[req'[d].source].qty - req'[d].seen
    <3>1. CASE d = c
      <4>1. /\ req'[d].qty = req[c].qty /\ req'[d].again = req[c].again /\ req'[d].source = req[c].source
            /\ req'[d].seen = sources[req[c].source].returned
        BY <2>1, <2>2, <3>1 DEF TypeOK
      <4> QED
        BY <2>1, <4>1 DEF Returnable
    <3>2. CASE d # c
      BY <2>1, <2>3, <3>2 DEF TypeOK, RequestsFit
    <3> QED
      BY <3>1, <3>2
  <2> QED
    BY <1>3, <1>b, <2>1, <2>3 DEF RequestsFit
<1>4. ASSUME NEW c \in Clients, CommitReturn(c)
      PROVE  ReturnedWithinImported' /\ RequestsFit'
  <2> DEFINE s == req[c].source
             row == [sources[s] EXCEPT !.returned = @ + req[c].qty]
  <2>1. /\ req[c].op = "return" /\ s \in 1..Len(sources)
        /\ sources[s] \in Source /\ req[c].qty \in Nat
        /\ sources' = [sources EXCEPT ![s] = row]
        /\ Len(sources') = Len(sources)
    BY <1>4, CommitReturnSource, ReturnRequest
  <2>2. row.qty = sources[s].qty /\ row.returned = sources[s].returned + req[c].qty
    BY <2>1 DEF Source
  <2>3. /\ req[c].qty - req[c].again <= sources[s].qty - sources[s].returned
        /\ sources[s].qty \in Nat /\ sources[s].returned \in Nat
        /\ req[c].again \in Nat
    <3>1. /\ req[c].qty - req[c].again <= sources[s].qty - req[c].seen
          /\ req[c].seen = sources[s].returned
      BY <1>4, <2>1 DEF RequestsFit, CommitReturn, SnapshotCurrent
    <3>2. sources[s].qty \in Nat /\ sources[s].returned \in Nat
      BY <2>1 DEF Source
    <3>3. req[c].again \in Nat
      BY <2>1, ReturnRequest
    <3> QED
      BY <3>1, <3>2, <3>3
  <2> HIDE DEF row
  <2>4. ReturnedWithinImported'
    <3> SUFFICES ASSUME NEW t \in 1..Len(sources)
                 PROVE  sources'[t].returned <=
                          sources'[t].qty + SumFunction(AgainOf(returns', t))
      BY <2>1 DEF ReturnedWithinImported, NamedAgain, AgainOf
    <3>1. SumFunction(AgainOf(returns', t)) =
            SumFunction(AgainOf(returns, t)) + (IF s = t THEN req[c].again ELSE 0)
      BY <1>4, <1>a, AgainAdded
    <3>2. SumFunction(AgainOf(returns, t)) \in Nat
      BY AgainType DEF TypeOK
    <3>3. sources[t].returned <= sources[t].qty + SumFunction(AgainOf(returns, t))
      BY AgainSums
    <3> HIDE DEF s, AgainOf
    <3>4. CASE t = s
      <4>1. sources'[t] = row
        BY <2>1, <3>4 DEF TypeOK
      <4>2. \A q, a, x, r, u \in Nat : q - a <= x - r => r + q <= x + (u + a)
        OBVIOUS
      <4>3. SumFunction(AgainOf(returns', t)) = SumFunction(AgainOf(returns, t)) + req[c].again
        BY <3>1, <3>4
      <4>4. sources[s].returned + req[c].qty
              <= sources[s].qty + (SumFunction(AgainOf(returns, t)) + req[c].again)
        BY <2>1, <2>3, <3>2, <4>2
      <4> QED
        BY <2>2, <4>1, <4>3, <4>4
    <3>5. CASE t # s
      <4>1. sources'[t] = sources[t]
        BY <2>1, <3>5 DEF TypeOK
      <4> QED
        BY <3>1, <3>2, <3>3, <3>5, <4>1
    <3> QED
      BY <3>4, <3>5
  <2> HIDE DEF s
  <2>5. /\ \A t \in 1..Len(sources) : sources'[t].qty = sources[t].qty
        /\ Len(sources') >= Len(sources)
    BY <2>1, <2>2 DEF TypeOK
  <2>6. \A d \in Clients : req'[d] = req[d] \/ req'[d].op # "return"
    BY <1>4 DEF CommitReturn, Done, Idle, TypeOK
  <2> QED
    BY <2>4, <2>5, <2>6, RequestsFitKept
<1>5. ASSUME NEW c \in Clients, NEW p \in Parts, ImportItem(c, p)
      PROVE  ~ (\E d \in Clients : CommitReturn(d)) => ReturnedWithinImported' /\ RequestsFit'
  <2> SUFFICES ASSUME ~ \E d \in Clients : CommitReturn(d)
               PROVE  ReturnedWithinImported' /\ RequestsFit'
    OBVIOUS
  <2> DEFINE row == NewSource(req[c], p)
  <2>1. /\ sources' = Append(sources, row) /\ row \in Source /\ req[c].op = "import"
    BY <1>5, ImportRequest DEF ImportItem
  <2>2. row.returned = 0 /\ row.qty \in Nat
    BY <1>5, ImportRequest DEF ImportItem, NewSource
  <2> HIDE DEF row
  <2>3. sources \in Seq(Source) /\ Len(sources) \in Nat
    BY DEF TypeOK
  <2>4. /\ Len(sources') = Len(sources) + 1
        /\ sources'[Len(sources) + 1] = row
        /\ \A s \in 1..Len(sources) : sources'[s] = sources[s]
    BY <2>1, <2>3
  <2>5. ReturnedWithinImported'
    <3> SUFFICES ASSUME NEW s \in 1..Len(sources')
                 PROVE  sources'[s].returned <=
                          sources'[s].qty + SumFunction(AgainOf(returns', s))
      BY DEF ReturnedWithinImported, NamedAgain, AgainOf
    <3>1. SumFunction(AgainOf(returns', s)) \in Nat
      BY <1>a, AgainType DEF TypeOK
    <3>2. AgainOf(returns', s) = AgainOf(returns, s)
      BY AgainStays
    <3> HIDE DEF AgainOf
    <3>3. CASE s = Len(sources) + 1
      BY <2>2, <2>4, <3>1, <3>3
    <3>4. CASE s \in 1..Len(sources)
      BY <2>4, <3>2, <3>4, AgainSums
    <3> QED
      BY <2>3, <2>4, <3>3, <3>4
  <2>6. \A d \in Clients : req'[d] = req[d] \/ req'[d].op # "return"
    <3>1. req'[c].op = req[c].op
      BY <1>5, <2>1, ImportRequest DEF ImportItem, TypeOK
    <3> QED
      BY <1>5, <2>1, <3>1 DEF ImportItem, TypeOK
  <2> QED
    BY <2>3, <2>4, <2>5, <2>6, RequestsFitKept
<1> QED
  BY <1>1, <1>2, <1>3, <1>4, <1>5, SourceWriters

(* No more of an imported item goes back to the supplier than came in with *)
(* it and than requests named a second time, however many returns race:    *)
(* the first to commit wins, the others are checked again against what it  *)
(* left (purchaseReturns.js lines 146-179).                                *)
THEOREM ReturnsWithinImports == Spec => []ReturnedWithinImported
<1>1. Init => ImportsInv
  <2>1. Init => ReturnedWithinImported
    BY DEF Init, ReturnedWithinImported
  <2>2. Init => RequestsFit
    BY DEF Init, RequestsFit, Idle
  <2> QED
    BY <2>1, <2>2, TypeInit DEF ImportsInv
<1>2. ImportsInv => ReturnedWithinImported
  BY DEF ImportsInv
<1> QED
  BY <1>1, <1>2, ImportsNext, PTL DEF Spec
=============================================================================
