------------------------------ MODULE StockProofs ------------------------------
(***************************************************************************)
(* Theorems about the stockroom, for any number of parts, requests, orders *)
(* and claims, any prices and any quantities.                              *)
(***************************************************************************)
EXTENDS Stock, Sums, TLAPS

-----------------------------------------------------------------------------
(* What orders, claims and requests name has a row: rows are never removed.*)
Present ==
    /\ \A o \in 1..Len(orders) : \A p \in Listed(orders[o].items) : Exists(p)
    /\ \A n \in 1..Len(claims) : Exists(claims[n].part)
    /\ \A c \in Clients :
          req[c].op = "order" => \A p \in Listed(req[c].items) : Exists(p)

TypeInv == TypeOK /\ Present

(* What a step leaves of each table.                                       *)
RowsStay ==
    /\ row' \in [Parts -> Row \cup {NoRow}]
    /\ \A p \in Parts : Exists(p) => row'[p] # NoRow

OrdersStay ==
    /\ orders' \in Seq(Order)
    /\ Len(orders) <= Len(orders')
    /\ \A o \in 1..Len(orders') :
          IF o \in 1..Len(orders) THEN orders'[o].items = orders[o].items
          ELSE \A p \in Listed(orders'[o].items) : Exists(p)

ClaimsStay ==
    /\ claims' \in Seq(Claim)
    /\ Len(claims) <= Len(claims')
    /\ \A n \in 1..Len(claims') :
          IF n \in 1..Len(claims)
          THEN claims'[n].part = claims[n].part /\ claims[n].version <= claims'[n].version
          ELSE Exists(claims'[n].part)

(* A request that turns names only what is there.                          *)
Named(q) ==
    /\ q.op \in {"opening", "edit", "purchase", "adjust"} => row'[q.part] # NoRow
    /\ q.op = "order" => \A p \in Listed(q.items) : Exists(p)
    /\ q.op = "deduct" => q.order \in 1..Len(orders')
    /\ q.op = "claim" =>
          q.claim \in 1..Len(claims') /\ q.version <= claims'[q.claim].version

RequestsStay ==
    /\ req' \in [Clients -> Requests]
    /\ \A c \in Clients : req'[c] = req[c] \/ Named(req'[c])

(* The shapes of a request.                                                *)
LEMMA RequestShapes ==
    ASSUME NEW q \in Requests
    PROVE  /\ q.op \in {"create", "opening", "edit", "purchase", "adjust"} => q.part \in Parts
           /\ q.op \in {"create", "opening"} =>
                 q.qty \in Amounts /\ q.cost \in Prices \cup {NoPrice}
           /\ q.op = "edit" =>
                 /\ q.qty \in Nat /\ q.seen \in Nat
                 /\ q.version \in Nat \cup {NoVersion} /\ q.cost \in Prices \cup {NoPrice}
           /\ q.op = "purchase" =>
                 /\ q.qty \in Amounts \ {0} /\ q.seen \in Nat /\ q.seenCost \in Nat
                 /\ q.price \in Prices \cup {NoPrice}
           /\ q.op = "adjust" => q.qty \in AdjustQtys /\ q.type \in AdjustTypes
           /\ q.op = "order" => q.items \in Baskets
           /\ q.op = "deduct" => q.order \in Nat
           /\ q.op = "claim" => q.claim \in Nat /\ q.to \in ClaimStatuses /\ q.version \in Nat
BY DEF Requests, Idle, InventoryReq, OrderReq, ClaimReq

(* The tables by themselves.                                               *)
LEMMA Tables ==
    ASSUME TypeInv
    PROVE  /\ row \in [Parts -> Row \cup {NoRow}]
           /\ moved \in [Parts -> Int]
           /\ orders \in Seq(Order) /\ Len(orders) \in Nat
           /\ claims \in Seq(Claim) /\ Len(claims) \in Nat
           /\ disturbed \subseteq Parts
           /\ req \in [Clients -> Requests]
           /\ \A o \in 1..Len(orders) : orders[o] \in Order
           /\ \A n \in 1..Len(claims) : claims[n] \in Claim
           /\ \A c \in Clients : req[c] \in Requests /\ StillThere(req[c])
<1>1. orders \in Seq(Order) /\ claims \in Seq(Claim)
  BY DEF TypeInv, TypeOK
<1> QED
  BY <1>1 DEF TypeInv, TypeOK

LEMMA RowShapes ==
    ASSUME TypeInv, NEW p \in Parts
    PROVE  /\ row[p].qty \in Nat /\ row[p].cost \in Nat /\ row[p].version \in Int
           /\ Exists(p) => row[p] \in Row /\ row[p].version \in Nat
           /\ ~Exists(p) => row[p] = NoRow
<1>1. row[p] \in Row \cup {NoRow}
  BY Tables
<1> QED
  BY <1>1 DEF Row, NoRow, Exists

(* The types hold when every table stays as it should.                     *)
LEMMA TypesStay ==
    ASSUME TypeInv, RowsStay, OrdersStay, ClaimsStay, RequestsStay,
           moved' \in [Parts -> Int], disturbed' \subseteq Parts
    PROVE  TypeInv'
<1>1. ASSUME NEW c \in Clients
      PROVE  /\ StillThere(req[c])'
             /\ req'[c].op = "order" => \A p \in Listed(req'[c].items) : Exists(p)
  <2>1. req[c] \in Requests /\ StillThere(req[c])
    BY Tables
  <2>2. CASE req'[c] = req[c]
    <3>1. req[c].op \in {"opening", "edit", "purchase", "adjust"} => row'[req[c].part] # NoRow
      BY <2>1, RequestShapes DEF RowsStay, StillThere
    <3>2. req[c].op = "deduct" => req[c].order \in 1..Len(orders')
      BY <2>1, Tables DEF OrdersStay, StillThere
    <3>3. req[c].op = "claim" =>
            req[c].claim \in 1..Len(claims') /\ req[c].version <= claims'[req[c].claim].version
      <4> SUFFICES ASSUME req[c].op = "claim"
                   PROVE  /\ req[c].claim \in 1..Len(claims')
                          /\ req[c].version <= claims'[req[c].claim].version
        OBVIOUS
      <4>1. /\ req[c].claim \in 1..Len(claims) /\ req[c].version <= claims[req[c].claim].version
            /\ req[c].version \in Nat
        BY <2>1, RequestShapes DEF StillThere
      <4>2. req[c].claim \in 1..Len(claims')
        BY <4>1, Tables DEF ClaimsStay
      <4>3. /\ claims[req[c].claim].version \in Nat
            /\ claims'[req[c].claim].version \in Nat
            /\ claims[req[c].claim].version <= claims'[req[c].claim].version
        <5>1. claims[req[c].claim] \in Claim /\ claims'[req[c].claim] \in Claim
          BY <4>1, <4>2, Tables DEF ClaimsStay
        <5> QED
          BY <4>1, <4>2, <5>1 DEF ClaimsStay, Claim
      <4> QED
        BY <4>1, <4>2, <4>3
    <3>4. req[c].op = "order" => \A p \in Listed(req[c].items) : Exists(p)
      BY DEF TypeInv, Present
    <3> QED
      BY <2>2, <3>1, <3>2, <3>3, <3>4 DEF StillThere, Exists
  <2>3. CASE Named(req'[c])
    BY <2>3 DEF Named, StillThere, Exists
  <2> QED
    BY <2>2, <2>3 DEF RequestsStay
<1>2. TypeOK'
  BY <1>1 DEF TypeOK, RowsStay, OrdersStay, ClaimsStay, RequestsStay
<1>3. ASSUME NEW o \in 1..Len(orders'), NEW p \in Listed(orders'[o].items)
      PROVE  row'[p] # NoRow
  <2>1. p \in Parts
    BY DEF Listed
  <2>2. Exists(p)
    BY DEF TypeInv, Present, OrdersStay
  <2> QED
    BY <2>1, <2>2 DEF RowsStay
<1>4. ASSUME NEW n \in 1..Len(claims')
      PROVE  row'[claims'[n].part] # NoRow
  <2>1. claims'[n].part \in Parts
    <3>1. claims'[n] \in Claim
      BY DEF ClaimsStay
    <3> QED
      BY <3>1 DEF Claim
  <2>2. Exists(claims'[n].part)
    BY DEF TypeInv, Present, ClaimsStay
  <2> QED
    BY <2>1, <2>2 DEF RowsStay
<1>5. ASSUME NEW c \in Clients, req'[c].op = "order", NEW p \in Listed(req'[c].items)
      PROVE  row'[p] # NoRow
  <2>1. p \in Parts
    BY DEF Listed
  <2> QED
    BY <1>1, <1>5, <2>1 DEF RowsStay
<1> QED
  BY <1>2, <1>3, <1>4, <1>5 DEF TypeInv, Present, Exists, Listed

-----------------------------------------------------------------------------
(* What the operations on a table do to it.                                *)
LEMMA SignedType ==
    ASSUME NEW t \in MoveTypes, NEW n \in Int
    PROVE  /\ Signed(t, n) \in Int
           /\ t \in InTypes => Signed(t, n) = n
           /\ t \in OutTypes => Signed(t, n) = 0 - n
           /\ t \in PaperTypes => Signed(t, n) = 0
<1>1. t \in InTypes \cup OutTypes \cup PaperTypes
  BY DEF MoveTypes
<1>2. CASE t \in InTypes
  BY <1>2 DEF Signed, InTypes, OutTypes, PaperTypes
<1>3. CASE t \in OutTypes
  BY <1>3 DEF Signed, InTypes, OutTypes, PaperTypes
<1>4. CASE t \in PaperTypes
  BY <1>4 DEF Signed, InTypes, OutTypes, PaperTypes
<1> QED
  BY <1>1, <1>2, <1>3, <1>4 DEF InTypes, OutTypes, PaperTypes

LEMMA RecordActs ==
    ASSUME TypeInv, NEW t \in MoveTypes, NEW p \in Parts, NEW n \in Int, Record(t, p, n)
    PROVE  /\ moved' \in [Parts -> Int]
           /\ moved'[p] = moved[p] + Signed(t, n)
           /\ \A r \in Parts : r # p => moved'[r] = moved[r]
<1>1. Signed(t, n) \in Int
  BY SignedType
<1> QED
  BY <1>1, Tables DEF Record

(* A row is written.                                                       *)
LEMMA RowWritten ==
    ASSUME TypeInv, NEW p \in Parts, NEW x \in Row, row' = [row EXCEPT ![p] = x]
    PROVE  /\ RowsStay
           /\ row'[p] = x
           /\ \A r \in Parts : r # p => row'[r] = row[r]
<1>1. x # NoRow
  BY DEF Row, NoRow
<1> QED
  BY <1>1, Tables DEF RowsStay, Exists

LEMMA ShiftActs ==
    ASSUME TypeInv, NEW p \in Parts, NEW n \in Int, Exists(p), Shift(p, n)
    PROVE  /\ RowsStay
           /\ row'[p].qty = row[p].qty + n
           /\ row'[p].cost = row[p].cost
           /\ \A r \in Parts : r # p => row'[r] = row[r]
<1> DEFINE x == [row[p] EXCEPT !.qty = row[p].qty + n]
<1>1. row[p] \in Row
  BY RowShapes
<1>2. row[p].qty + n \in Nat
  BY <1>1 DEF Shift, Row
<1>3. /\ x \in Row
      /\ x.qty = row[p].qty + n
      /\ x.cost = row[p].cost
  BY <1>1, <1>2 DEF Row
<1>4. row' = [row EXCEPT ![p] = x]
  BY DEF Shift
<1> HIDE DEF x
<1> QED
  BY <1>3, <1>4, RowWritten

(* A request turns to something else.                                      *)
LEMMA RequestTurns ==
    ASSUME TypeInv, NEW c \in Clients, NEW q \in Requests, Named(q),
           req' = [req EXCEPT ![c] = q]
    PROVE  /\ RequestsStay
           /\ req'[c] = q
           /\ \A d \in Clients : d # c => req'[d] = req[d]
BY Tables DEF RequestsStay

LEMMA DoneActs ==
    ASSUME TypeInv, NEW c \in Clients, Done(c)
    PROVE  /\ RequestsStay
           /\ req'[c] = Idle
           /\ \A d \in Clients : d # c => req'[d] = req[d]
<1>1. Idle \in Requests /\ Named(Idle)
  BY DEF Requests, Idle, Named
<1> QED
  BY <1>1, RequestTurns DEF Done

(* Tables that a step leaves alone stay.                                   *)
LEMMA Untouched ==
    ASSUME TypeInv
    PROVE  /\ UNCHANGED row => RowsStay
           /\ UNCHANGED orders => OrdersStay
           /\ UNCHANGED claims => ClaimsStay
           /\ UNCHANGED req => RequestsStay
           /\ UNCHANGED moved => moved' \in [Parts -> Int]
           /\ UNCHANGED disturbed => disturbed' \subseteq Parts
<1>1. ASSUME NEW n \in 1..Len(claims)
      PROVE  claims[n].version \in Nat
  <2>1. claims[n] \in Claim
    BY Tables
  <2> QED
    BY <2>1 DEF Claim
<1> QED
  BY <1>1, Tables DEF RowsStay, OrdersStay, ClaimsStay, RequestsStay, Exists

(* An order or a claim is changed, or one more is entered.                 *)
LEMMA OrderWritten ==
    ASSUME TypeInv, NEW o \in 1..Len(orders), NEW x \in Order, x.items = orders[o].items,
           orders' = [orders EXCEPT ![o] = x]
    PROVE  /\ OrdersStay
           /\ Len(orders') = Len(orders)
           /\ orders'[o] = x
           /\ \A k \in 1..Len(orders) : k # o => orders'[k] = orders[k]
<1>1. orders \in Seq(Order) /\ Len(orders) \in Nat
  BY Tables
<1>2. /\ orders' \in Seq(Order)
      /\ Len(orders') = Len(orders)
      /\ orders'[o] = x
      /\ \A k \in 1..Len(orders) : k # o => orders'[k] = orders[k]
  BY <1>1
<1> QED
  BY <1>1, <1>2 DEF OrdersStay

LEMMA ClaimWritten ==
    ASSUME TypeInv, NEW n \in 1..Len(claims), NEW x \in Claim, x.part = claims[n].part,
           claims[n].version <= x.version, claims' = [claims EXCEPT ![n] = x]
    PROVE  /\ ClaimsStay
           /\ Len(claims') = Len(claims)
           /\ claims'[n] = x
           /\ \A k \in 1..Len(claims) : k # n => claims'[k] = claims[k]
<1>1. claims \in Seq(Claim) /\ Len(claims) \in Nat
  BY Tables
<1>2. /\ claims' \in Seq(Claim)
      /\ Len(claims') = Len(claims)
      /\ claims'[n] = x
      /\ \A k \in 1..Len(claims) : k # n => claims'[k] = claims[k]
  BY <1>1
<1>3. ASSUME NEW k \in 1..Len(claims)
      PROVE  claims[k].version <= claims'[k].version /\ claims'[k].part = claims[k].part
  <2>1. claims[k] \in Claim
    BY Tables
  <2> QED
    BY <1>2, <2>1 DEF Claim
<1> QED
  BY <1>1, <1>2, <1>3 DEF ClaimsStay

-----------------------------------------------------------------------------
(* The steps of the inventory screen, each with what it does to the tables *)
(* and the requests.                                                       *)

(* A request starts: it names what it read.                                *)
LEMMA StartActs ==
    ASSUME TypeInv, NEW c \in Clients, NEW q \in Requests, Start(c, q),
           q.op \in {"opening", "edit", "purchase", "adjust"} => Exists(q.part),
           q.op \notin {"order", "deduct", "claim"}
    PROVE  /\ TypeInv'
           /\ UNCHANGED tables
           /\ req'[c] = q
           /\ \A d \in Clients : d # c => req'[d] = req[d]
<1>1. UNCHANGED <<row, moved, orders, claims, disturbed>> /\ req' = [req EXCEPT ![c] = q]
  BY DEF Start, tables
<1>2. Named(q)
  BY <1>1 DEF Named, Exists
<1>3. /\ RequestsStay
      /\ req'[c] = q
      /\ \A d \in Clients : d # c => req'[d] = req[d]
  BY <1>1, <1>2, RequestTurns
<1> QED
  BY <1>1, <1>3, Untouched, TypesStay DEF tables

LEMMA BeginCreateActs ==
    ASSUME TypeInv, NEW c \in Clients, BeginCreate(c)
    PROVE  /\ TypeInv'
           /\ UNCHANGED tables
           /\ req'[c].op = "create" /\ req[c].op = "idle"
           /\ \A d \in Clients : d # c => req'[d] = req[d]
<1>1. PICK p \in Parts, n \in Amounts, price \in Prices \cup {NoPrice} :
          Start(c, [op |-> "create", part |-> p, qty |-> n, cost |-> price])
  BY DEF BeginCreate
<1> DEFINE q == [op |-> "create", part |-> p, qty |-> n, cost |-> price]
<1>2. q \in Requests
  BY DEF Requests, InventoryReq
<1>3. q.op = "create"
  OBVIOUS
<1>4. req[c].op = "idle"
  BY <1>1 DEF Start
<1> HIDE DEF q
<1> QED
  BY <1>1, <1>2, <1>3, <1>4, StartActs DEF q

LEMMA CreateRowActs ==
    ASSUME TypeInv, NEW c \in Clients, CreateRow(c)
    PROVE  /\ TypeInv'
           /\ UNCHANGED <<moved, orders, claims, disturbed>>
           /\ req[c].op = "create" /\ req[c].part \in Parts /\ req[c].qty \in Nat
           /\ ~Exists(req[c].part)
           /\ row'[req[c].part].qty = req[c].qty
           /\ row'[req[c].part].cost = req[c].cost /\ req[c].cost \in Prices \cup {NoPrice}
           /\ \A r \in Parts : r # req[c].part => row'[r] = row[r]
           /\ IF req[c].qty > 0
              THEN /\ req'[c].op = "opening" /\ req'[c].part = req[c].part
                   /\ req'[c].qty = req[c].qty
              ELSE req'[c] = Idle
           /\ \A d \in Clients : d # c => req'[d] = req[d]
<1> DEFINE q == req[c]
           new == [qty |-> q.qty, version |-> 0, cost |-> q.cost]
           next == IF q.qty > 0 THEN [q EXCEPT !.op = "opening"] ELSE Idle
<1>1. /\ q.op = "create" /\ ~Exists(q.part)
      /\ row' = [row EXCEPT ![q.part] = new]
      /\ req' = [req EXCEPT ![c] = next]
      /\ UNCHANGED <<moved, orders, claims, disturbed>>
  BY DEF CreateRow
<1>2. q \in Requests
  BY Tables
<1>3. /\ q \in [op : {"create", "opening"}, part : Parts, qty : Amounts,
                cost : Prices \cup {NoPrice}]
      /\ q.part \in Parts /\ q.qty \in Amounts /\ q.cost \in Prices \cup {NoPrice}
      /\ q.qty \in Nat /\ q.cost \in Nat
  <2>1. q \in [op : {"create", "opening"}, part : Parts, qty : Amounts,
                cost : Prices \cup {NoPrice}]
    BY <1>1, <1>2 DEF Requests, Idle, InventoryReq, OrderReq, ClaimReq
  <2> QED
    BY <2>1, InventoryAssumption, StockroomAssumption DEF NoPrice
<1>4. new \in Row /\ new.qty = q.qty /\ new.cost = q.cost
  BY <1>3 DEF Row
<1>5. /\ RowsStay
      /\ row'[q.part] = new
      /\ \A r \in Parts : r # q.part => row'[r] = row[r]
  BY <1>1, <1>3, <1>4, RowWritten
<1>6. row'[q.part] # NoRow
  BY <1>5, <1>4 DEF Row, NoRow
<1>7. /\ next \in Requests /\ Named(next)
      /\ IF q.qty > 0 THEN next.op = "opening" /\ next.part = q.part /\ next.qty = q.qty
         ELSE next = Idle
  <2>1. CASE q.qty > 0
    <3>1. next = [q EXCEPT !.op = "opening"]
      BY <2>1
    <3>2. /\ next \in [op : {"create", "opening"}, part : Parts, qty : Amounts,
                       cost : Prices \cup {NoPrice}]
          /\ next.op = "opening" /\ next.part = q.part /\ next.qty = q.qty
      BY <3>1, <1>3
    <3> HIDE DEF next
    <3> QED
      BY <3>2, <2>1, <1>6 DEF Requests, InventoryReq, Named
  <2>2. CASE ~ (q.qty > 0)
    BY <2>2 DEF Requests, Idle, Named
  <2> QED
    BY <2>1, <2>2
<1> HIDE DEF next, new
<1>8. /\ RequestsStay
      /\ req'[c] = next
      /\ \A d \in Clients : d # c => req'[d] = req[d]
  BY <1>1, <1>7, RequestTurns
<1>9. TypeInv'
  BY <1>1, <1>5, <1>8, Untouched, TypesStay
<1> QED
  BY <1>1, <1>3, <1>4, <1>5, <1>7, <1>8, <1>9

LEMMA RecordOpeningActs ==
    ASSUME TypeInv, NEW c \in Clients, RecordOpening(c)
    PROVE  /\ TypeInv'
           /\ UNCHANGED <<row, orders, claims, disturbed>>
           /\ req[c].op = "opening" /\ req[c].part \in Parts /\ req[c].qty \in Nat
           /\ moved'[req[c].part] = moved[req[c].part] + req[c].qty
           /\ \A r \in Parts : r # req[c].part => moved'[r] = moved[r]
           /\ req'[c] = Idle
           /\ \A d \in Clients : d # c => req'[d] = req[d]
<1>1. /\ req[c].op = "opening" /\ Record("PURCHASE", req[c].part, req[c].qty) /\ Done(c)
      /\ UNCHANGED <<row, orders, claims, disturbed>>
  BY DEF RecordOpening
<1>2. req[c].part \in Parts /\ req[c].qty \in Nat
  BY <1>1, Tables, RequestShapes, InventoryAssumption
<1>3. "PURCHASE" \in MoveTypes /\ "PURCHASE" \in InTypes
  BY DEF MoveTypes, InTypes
<1>4. /\ moved' \in [Parts -> Int]
      /\ moved'[req[c].part] = moved[req[c].part] + req[c].qty
      /\ \A r \in Parts : r # req[c].part => moved'[r] = moved[r]
  BY <1>1, <1>2, <1>3, RecordActs, SignedType
<1>5. /\ RequestsStay
      /\ req'[c] = Idle
      /\ \A d \in Clients : d # c => req'[d] = req[d]
  BY <1>1, DoneActs
<1> QED
  BY <1>1, <1>2, <1>4, <1>5, Untouched, TypesStay

LEMMA BeginEditActs ==
    ASSUME TypeInv, NEW c \in Clients, BeginEdit(c)
    PROVE  /\ TypeInv'
           /\ UNCHANGED tables
           /\ req'[c].op = "edit" /\ req[c].op = "idle"
           /\ \A d \in Clients : d # c => req'[d] = req[d]
<1>1. PICK p \in Parts : \E n \in Amounts \cup {row[p].qty}, price \in Prices \cup {NoPrice},
                             v \in (0..row[p].version) \cup {NoVersion} :
          /\ Exists(p)
          /\ Start(c, [op |-> "edit", part |-> p, qty |-> n, seen |-> row[p].qty,
                       version |-> v, cost |-> price])
  BY DEF BeginEdit
<1>2. PICK n \in Amounts \cup {row[p].qty}, price \in Prices \cup {NoPrice},
           v \in (0..row[p].version) \cup {NoVersion} :
          /\ Exists(p)
          /\ Start(c, [op |-> "edit", part |-> p, qty |-> n, seen |-> row[p].qty,
                       version |-> v, cost |-> price])
  BY <1>1
<1> DEFINE q == [op |-> "edit", part |-> p, qty |-> n, seen |-> row[p].qty,
                 version |-> v, cost |-> price]
<1>3. n \in Nat /\ row[p].qty \in Nat /\ v \in Nat \cup {NoVersion}
  BY RowShapes, InventoryAssumption
<1>4. q \in Requests
  BY <1>3 DEF Requests, InventoryReq
<1>5. q.op = "edit" /\ q.part = p
  OBVIOUS
<1>6. req[c].op = "idle"
  BY <1>2 DEF Start
<1> HIDE DEF q
<1> QED
  BY <1>2, <1>4, <1>5, <1>6, StartActs DEF q

(* What a request to edit holds, and the row it may write.                 *)
LEMMA EditShapes ==
    ASSUME TypeInv, NEW c \in Clients, req[c].op = "edit"
    PROVE  /\ req[c].part \in Parts /\ Exists(req[c].part)
           /\ req[c].qty \in Nat /\ req[c].seen \in Nat
           /\ req[c].cost \in Prices \cup {NoPrice}
           /\ Edited(row[req[c].part], req[c]) \in Row
           /\ Edited(row[req[c].part], req[c]).qty = req[c].qty
           /\ Edited(row[req[c].part], req[c]).cost =
                IF req[c].cost = NoPrice THEN row[req[c].part].cost ELSE req[c].cost
<1> DEFINE q == req[c]
<1>1. q \in Requests /\ StillThere(q)
  BY Tables
<1>2. /\ q.part \in Parts /\ Exists(q.part) /\ q.qty \in Nat /\ q.seen \in Nat
      /\ q.cost \in Prices \cup {NoPrice} /\ q.cost \in Nat
  <2>1. /\ q.part \in Parts /\ q.qty \in Nat /\ q.seen \in Nat
        /\ q.cost \in Prices \cup {NoPrice}
    BY <1>1, RequestShapes
  <2>2. q.cost \in Nat
    BY <2>1, StockroomAssumption DEF NoPrice
  <2>3. Exists(q.part)
    BY <1>1 DEF StillThere
  <2> QED
    BY <2>1, <2>2, <2>3
<1>3. row[q.part] \in Row
  BY <1>2, RowShapes
<1> HIDE DEF q
<1>4. /\ Edited(row[q.part], q) \in Row
      /\ Edited(row[q.part], q).qty = q.qty
      /\ Edited(row[q.part], q).cost = IF q.cost = NoPrice THEN row[q.part].cost ELSE q.cost
  BY <1>2, <1>3 DEF Row, Edited
<1> QED
  BY <1>2, <1>4 DEF q

LEMMA CommitCorrectionActs ==
    ASSUME TypeInv, NEW c \in Clients, CommitCorrection(c)
    PROVE  /\ TypeInv'
           /\ UNCHANGED <<orders, claims>>
           /\ req[c].op = "edit" /\ req[c].part \in Parts
           /\ req[c].cost \in Prices \cup {NoPrice}
           /\ moved'[req[c].part] = moved[req[c].part] + (req[c].qty - req[c].seen)
           /\ \A r \in Parts : r # req[c].part => moved'[r] = moved[r]
           /\ \/ /\ row'[req[c].part].qty = req[c].qty
                 /\ row'[req[c].part].cost =
                      IF req[c].cost = NoPrice THEN row[req[c].part].cost ELSE req[c].cost
                 /\ row[req[c].part].qty = req[c].seen /\ disturbed' = disturbed
              \/ /\ row'[req[c].part].cost =
                      IF req[c].cost = NoPrice THEN row[req[c].part].cost ELSE req[c].cost
                 /\ disturbed' = disturbed \cup {req[c].part}
              \/ /\ row'[req[c].part] = row[req[c].part]
                 /\ disturbed' = disturbed \cup {req[c].part}
           /\ \A r \in Parts : r # req[c].part => row'[r] = row[r]
           /\ req'[c] = Idle
           /\ \A d \in Clients : d # c => req'[d] = req[d]
<1> DEFINE q == req[c]
           x == Edited(row[q.part], q)
<1>1. /\ q.op = "edit" /\ Record("AUDIT", q.part, q.qty - q.seen)
      /\ row' = IF VersionCurrent(q) THEN [row EXCEPT ![q.part] = x] ELSE row
      /\ disturbed' = IF VersionCurrent(q) /\ row[q.part].qty = q.seen
                      THEN disturbed ELSE disturbed \cup {q.part}
      /\ Done(c)
      /\ UNCHANGED <<orders, claims>>
  BY DEF CommitCorrection
<1>2. /\ q.part \in Parts /\ q.qty \in Nat /\ q.seen \in Nat
      /\ q.cost \in Prices \cup {NoPrice}
      /\ x \in Row /\ x.qty = q.qty
      /\ x.cost = IF q.cost = NoPrice THEN row[q.part].cost ELSE q.cost
  BY <1>1, EditShapes
<1>3. q.qty - q.seen \in Int /\ "AUDIT" \in MoveTypes /\ "AUDIT" \in InTypes
  BY <1>2 DEF MoveTypes, InTypes
<1> HIDE DEF q, x
<1>4. /\ moved' \in [Parts -> Int]
      /\ moved'[q.part] = moved[q.part] + (q.qty - q.seen)
      /\ \A r \in Parts : r # q.part => moved'[r] = moved[r]
  BY <1>1, <1>2, <1>3, RecordActs, SignedType
<1>5. /\ RequestsStay
      /\ req'[c] = Idle
      /\ \A d \in Clients : d # c => req'[d] = req[d]
  BY <1>1, DoneActs
<1>6. disturbed' \subseteq Parts
  BY <1>1, <1>2, Tables
<1>7. CASE VersionCurrent(q)
  <2>1. /\ RowsStay
        /\ row'[q.part] = x
        /\ \A r \in Parts : r # q.part => row'[r] = row[r]
    BY <1>1, <1>2, <1>7, RowWritten
  <2>2. TypeInv'
    BY <1>1, <1>4, <1>5, <1>6, <2>1, Untouched, TypesStay
  <2> QED
    BY <1>1, <1>2, <1>4, <1>5, <1>7, <2>1, <2>2 DEF q
<1>8. CASE ~VersionCurrent(q)
  <2>1. UNCHANGED row
    BY <1>1, <1>8
  <2>2. TypeInv'
    BY <1>1, <1>4, <1>5, <1>6, <2>1, Untouched, TypesStay
  <2> QED
    BY <1>1, <1>2, <1>4, <1>5, <1>8, <2>1, <2>2 DEF q
<1> QED
  BY <1>7, <1>8

LEMMA CommitDetailsActs ==
    ASSUME TypeInv, NEW c \in Clients, CommitDetails(c)
    PROVE  /\ TypeInv'
           /\ UNCHANGED <<moved, orders, claims, disturbed>>
           /\ req[c].op = "edit" /\ req[c].part \in Parts
           /\ req[c].cost \in Prices \cup {NoPrice}
           /\ row'[req[c].part].qty = row[req[c].part].qty
           /\ row'[req[c].part].cost =
                IF req[c].cost = NoPrice THEN row[req[c].part].cost ELSE req[c].cost
           /\ \A r \in Parts : r # req[c].part => row'[r] = row[r]
           /\ req'[c] = Idle
           /\ \A d \in Clients : d # c => req'[d] = req[d]
<1> DEFINE q == req[c]
           y == Edited(row[q.part], q)
           x == [y EXCEPT !.qty = row[q.part].qty]
<1>1. /\ q.op = "edit"
      /\ row' = [row EXCEPT ![q.part] = x]
      /\ Done(c)
      /\ UNCHANGED <<moved, orders, claims, disturbed>>
  BY DEF CommitDetails
<1>2. /\ q.part \in Parts /\ y \in Row /\ row[q.part].qty \in Nat
      /\ q.cost \in Prices \cup {NoPrice}
      /\ y.cost = IF q.cost = NoPrice THEN row[q.part].cost ELSE q.cost
  BY <1>1, EditShapes, RowShapes
<1> HIDE DEF y
<1>3. x \in Row /\ x.qty = row[q.part].qty /\ x.cost = y.cost
  BY <1>2 DEF Row
<1> HIDE DEF q, x
<1>4. /\ RowsStay
      /\ row'[q.part] = x
      /\ \A r \in Parts : r # q.part => row'[r] = row[r]
  BY <1>1, <1>2, <1>3, RowWritten
<1>5. /\ RequestsStay
      /\ req'[c] = Idle
      /\ \A d \in Clients : d # c => req'[d] = req[d]
  BY <1>1, DoneActs
<1>6. TypeInv'
  BY <1>1, <1>4, <1>5, Untouched, TypesStay
<1> QED
  BY <1>1, <1>2, <1>3, <1>4, <1>5, <1>6 DEF q

LEMMA BeginPurchaseActs ==
    ASSUME TypeInv, NEW c \in Clients, BeginPurchase(c)
    PROVE  /\ TypeInv'
           /\ UNCHANGED tables
           /\ req'[c].op = "purchase" /\ req[c].op = "idle"
           /\ req'[c].qty # 0
           /\ \E p \in Parts : req'[c].seenCost = row[p].cost
           /\ \A d \in Clients : d # c => req'[d] = req[d]
<1>1. PICK p \in Parts, n \in Amounts \ {0}, price \in Prices \cup {NoPrice} :
          /\ Exists(p)
          /\ Start(c, [op |-> "purchase", part |-> p, qty |-> n, seen |-> row[p].qty,
                       seenCost |-> row[p].cost, price |-> price])
  BY DEF BeginPurchase
<1> DEFINE q == [op |-> "purchase", part |-> p, qty |-> n, seen |-> row[p].qty,
                 seenCost |-> row[p].cost, price |-> price]
<1>2. row[p].qty \in Nat /\ row[p].cost \in Nat
  BY RowShapes
<1>3. q \in Requests
  BY <1>2 DEF Requests, InventoryReq
<1>4. q.op = "purchase" /\ q.part = p /\ q.qty # 0 /\ q.seenCost = row[p].cost
  OBVIOUS
<1>5. req[c].op = "idle" /\ Start(c, q)
  BY <1>1 DEF Start
<1> HIDE DEF q
<1>6. /\ TypeInv'
      /\ UNCHANGED tables
      /\ req'[c] = q
      /\ \A d \in Clients : d # c => req'[d] = req[d]
  BY <1>1, <1>3, <1>4, <1>5, StartActs
<1> QED
  BY <1>4, <1>5, <1>6

(* The average of a purchase is a quotient of whole numbers.               *)
LEMMA RoundedType ==
    ASSUME NEW n \in Nat, NEW d \in Nat, d > 0
    PROVE  Rounded(n, d) \in Nat
<1>1. 2 * n + d \in Nat /\ 2 * d \in Nat /\ 2 * d > 0
  OBVIOUS
<1> QED
  BY <1>1 DEF Rounded

LEMMA WeightedCostType ==
    ASSUME NEW seen \in Nat, NEW seenCost \in Nat, NEW n \in Nat, n > 0, NEW price \in Nat
    PROVE  WeightedCost(seen, seenCost, n, price) \in Nat
<1> DEFINE a == IF seenCost = NoPrice THEN price ELSE seenCost
<1>1. a \in Nat
  OBVIOUS
<1>2. seen * a \in Nat /\ n * price \in Nat
  BY <1>1
<1>3. seen * a + n * price \in Nat /\ seen + n \in Nat /\ seen + n > 0
  BY <1>2
<1> QED
  BY <1>3, RoundedType DEF WeightedCost

LEMMA CommitPurchaseActs ==
    ASSUME TypeInv, NEW c \in Clients, CommitPurchase(c)
    PROVE  /\ TypeInv'
           /\ UNCHANGED <<orders, claims, disturbed>>
           /\ req[c].op = "purchase" /\ req[c].part \in Parts
           /\ req[c].qty \in Nat \ {0} /\ req[c].seen \in Nat /\ req[c].seenCost \in Nat
           /\ req[c].price \in Prices \cup {NoPrice}
           /\ moved'[req[c].part] = moved[req[c].part] + req[c].qty
           /\ \A r \in Parts : r # req[c].part => moved'[r] = moved[r]
           /\ row'[req[c].part].qty = row[req[c].part].qty + req[c].qty
           /\ row'[req[c].part].cost =
                IF req[c].price = NoPrice THEN row[req[c].part].cost
                ELSE WeightedCost(req[c].seen, req[c].seenCost, req[c].qty, req[c].price)
           /\ \A r \in Parts : r # req[c].part => row'[r] = row[r]
           /\ req'[c] = Idle
           /\ \A d \in Clients : d # c => req'[d] = req[d]
<1> DEFINE q == req[c]
           cost == IF q.price = NoPrice THEN row[q.part].cost
                   ELSE WeightedCost(q.seen, q.seenCost, q.qty, q.price)
           x == [row[q.part] EXCEPT !.qty = row[q.part].qty + q.qty, !.cost = cost]
<1>1. /\ q.op = "purchase" /\ Record("PURCHASE", q.part, q.qty)
      /\ row' = [row EXCEPT ![q.part] = x]
      /\ Done(c)
      /\ UNCHANGED <<orders, claims, disturbed>>
  BY Tables DEF CommitPurchase
<1>2. /\ q.part \in Parts /\ q.qty \in Nat \ {0} /\ q.seen \in Nat /\ q.seenCost \in Nat
      /\ q.price \in Prices \cup {NoPrice} /\ q.price \in Nat /\ Exists(q.part)
  <2>1. q \in Requests /\ StillThere(q)
    BY Tables
  <2>2. /\ q.part \in Parts /\ q.qty \in Amounts \ {0} /\ q.seen \in Nat /\ q.seenCost \in Nat
        /\ q.price \in Prices \cup {NoPrice}
    BY <1>1, <2>1, RequestShapes
  <2>3. q.qty \in Nat \ {0} /\ q.price \in Nat
    <3>1. q.qty \in Nat \ {0}
      BY <2>2, InventoryAssumption
    <3>2. q.price \in Nat
      BY <2>2, StockroomAssumption DEF NoPrice
    <3> QED
      BY <3>1, <3>2
  <2>4. Exists(q.part)
    BY <1>1, <2>1 DEF StillThere
  <2> QED
    BY <2>2, <2>3, <2>4
<1>3. row[q.part] \in Row /\ row[q.part].qty \in Nat /\ row[q.part].cost \in Nat
  BY <1>2, RowShapes
<1>4. cost \in Nat
  <2>1. q.qty > 0
    BY <1>2
  <2>2. WeightedCost(q.seen, q.seenCost, q.qty, q.price) \in Nat
    BY <1>2, <2>1, WeightedCostType
  <2> QED
    BY <1>3, <2>2
<1> HIDE DEF cost
<1>5. x \in Row /\ x.qty = row[q.part].qty + q.qty /\ x.cost = cost
  <2>1. row[q.part].qty + q.qty \in Nat
    BY <1>2, <1>3
  <2> QED
    <3> DEFINE old == row[q.part]
               n == row[q.part].qty + q.qty
    <3>1. x = [old EXCEPT !.qty = n, !.cost = cost]
      OBVIOUS
    <3>2. old \in Row /\ n \in Nat
      BY <1>3, <2>1
    <3> HIDE DEF old, n, x
    <3>3. x \in Row /\ x.qty = n /\ x.cost = cost
      BY <1>4, <3>1, <3>2 DEF Row
    <3> QED
      BY <3>3 DEF n
<1> HIDE DEF x, q
<1>6. /\ RowsStay
      /\ row'[q.part] = x
      /\ \A r \in Parts : r # q.part => row'[r] = row[r]
  BY <1>1, <1>2, <1>5, RowWritten
<1>7. "PURCHASE" \in MoveTypes /\ "PURCHASE" \in InTypes
  BY DEF MoveTypes, InTypes
<1>8. /\ moved' \in [Parts -> Int]
      /\ moved'[q.part] = moved[q.part] + q.qty
      /\ \A r \in Parts : r # q.part => moved'[r] = moved[r]
  BY <1>1, <1>2, <1>7, RecordActs, SignedType
<1>9. /\ RequestsStay
      /\ req'[c] = Idle
      /\ \A d \in Clients : d # c => req'[d] = req[d]
  BY <1>1, DoneActs
<1>10. TypeInv'
  BY <1>1, <1>6, <1>8, <1>9, Untouched, TypesStay
<1>11. row'[q.part].qty = row[q.part].qty + q.qty /\ row'[q.part].cost = cost
  BY <1>5, <1>6
<1> QED
  BY <1>1, <1>2, <1>6, <1>8, <1>9, <1>10, <1>11 DEF q, cost

LEMMA BulkStockInActs ==
    ASSUME TypeInv, BulkStockIn
    PROVE  /\ TypeInv'
           /\ UNCHANGED <<orders, claims, disturbed, req>>
           /\ \A r \in Parts : row'[r].qty - row[r].qty = moved'[r] - moved[r]
           /\ \A r \in Parts : row'[r].cost # row[r].cost => row'[r].cost \in Prices \cup {NoPrice}
<1>1. PICK S \in SUBSET Parts \ {{}} :
        \E qty \in [S -> Amounts], price \in Prices \cup {NoPrice}, named \in BOOLEAN :
        /\ row' = [p \in Parts |-> IF p \in S THEN BulkRow(row[p], qty[p], price, named)
                                   ELSE row[p]]
        /\ moved' = [p \in Parts |->
                       IF p \in S THEN moved[p] + Signed("PURCHASE", qty[p]) ELSE moved[p]]
        /\ UNCHANGED <<orders, claims, disturbed, req>>
  BY DEF BulkStockIn
<1>2. PICK qty \in [S -> Amounts], price \in Prices \cup {NoPrice}, named \in BOOLEAN :
        /\ row' = [p \in Parts |-> IF p \in S THEN BulkRow(row[p], qty[p], price, named)
                                   ELSE row[p]]
        /\ moved' = [p \in Parts |->
                       IF p \in S THEN moved[p] + Signed("PURCHASE", qty[p]) ELSE moved[p]]
        /\ UNCHANGED <<orders, claims, disturbed, req>>
  BY <1>1
<1>3. "PURCHASE" \in MoveTypes /\ "PURCHASE" \in InTypes
  BY DEF MoveTypes, InTypes
<1>4. price \in Nat
  BY StockroomAssumption DEF NoPrice
<1>5. ASSUME NEW r \in Parts
      PROVE  /\ row'[r] \in Row \cup {NoRow}
             /\ Exists(r) => row'[r] # NoRow
             /\ moved'[r] \in Int
             /\ row'[r].qty - row[r].qty = moved'[r] - moved[r]
             /\ row'[r].cost # row[r].cost => row'[r].cost \in Prices \cup {NoPrice}
  <2>1. /\ row[r].qty \in Nat /\ row[r].cost \in Nat /\ moved[r] \in Int
        /\ row[r] \in Row \cup {NoRow}
    BY RowShapes, Tables
  <2>2. CASE r \in S
    <3>1. qty[r] \in Nat
      BY <2>2, InventoryAssumption
    <3>2. moved'[r] = moved[r] + qty[r]
      BY <1>2, <1>3, <2>2, <3>1, SignedType
    <3>3. row'[r] = BulkRow(row[r], qty[r], price, named)
      BY <1>2, <2>2
    <3>4. CASE row[r] = NoRow
      <4>1. row'[r] = [qty |-> qty[r], version |-> 0, cost |-> price]
        BY <3>3, <3>4 DEF BulkRow
      <4>2. row'[r] \in Row /\ row'[r].qty = qty[r] /\ row'[r].cost = price
        BY <4>1, <3>1, <1>4 DEF Row
      <4> QED
        BY <2>1, <3>2, <3>1, <3>4, <4>2 DEF Row, NoRow
    <3>5. CASE row[r] \in Row
      <4>1. row[r] # NoRow
        BY <3>5 DEF Row, NoRow
      <4>2. row'[r] = [row[r] EXCEPT !.qty = @ + qty[r],
                                     !.cost = IF named THEN price ELSE @]
        BY <3>3, <4>1 DEF BulkRow
      <4>3. /\ row'[r] \in Row /\ row'[r].qty = row[r].qty + qty[r]
            /\ row'[r].cost = IF named THEN price ELSE row[r].cost
        <5> DEFINE m == IF named THEN price ELSE row[r].cost
        <5>1. m \in Nat /\ row[r].qty + qty[r] \in Nat
          BY <2>1, <3>1, <1>4
        <5> DEFINE old == row[r]
                   n == row[r].qty + qty[r]
                   new == row'[r]
        <5>2. new = [old EXCEPT !.qty = n, !.cost = m]
          BY <4>2
        <5>3. old \in Row /\ n \in Nat
          BY <3>5, <5>1
        <5> HIDE DEF m, old, n, new
        <5>4. new \in Row /\ new.qty = n /\ new.cost = m
          BY <5>1, <5>2, <5>3 DEF Row
        <5> QED
          BY <5>4 DEF m, n, new
      <4> QED
        BY <2>1, <3>2, <3>1, <4>3 DEF Row, NoRow
    <3> QED
      BY <2>1, <3>4, <3>5
  <2>3. CASE r \notin S
    BY <1>2, <2>1, <2>3 DEF Exists
  <2> QED
    BY <2>2, <2>3
<1>6. RowsStay /\ moved' \in [Parts -> Int]
  BY <1>2, <1>5 DEF RowsStay
<1>7. TypeInv'
  BY <1>2, <1>6, Untouched, TypesStay
<1> QED
  BY <1>2, <1>5, <1>7

LEMMA BeginAdjustActs ==
    ASSUME TypeInv, NEW c \in Clients, BeginAdjust(c)
    PROVE  /\ TypeInv'
           /\ UNCHANGED tables
           /\ req'[c].op = "adjust" /\ req[c].op = "idle"
           /\ \A d \in Clients : d # c => req'[d] = req[d]
<1>1. PICK p \in Parts, n \in AdjustQtys, t \in AdjustTypes :
          /\ Exists(p)
          /\ Start(c, [op |-> "adjust", part |-> p, qty |-> n, type |-> t])
  BY DEF BeginAdjust
<1> DEFINE q == [op |-> "adjust", part |-> p, qty |-> n, type |-> t]
<1>2. q \in Requests
  BY DEF Requests, InventoryReq
<1>3. q.op = "adjust" /\ q.part = p
  OBVIOUS
<1>4. req[c].op = "idle" /\ Start(c, q)
  BY <1>1 DEF Start
<1> HIDE DEF q
<1>5. /\ TypeInv'
      /\ UNCHANGED tables
      /\ req'[c] = q
      /\ \A d \in Clients : d # c => req'[d] = req[d]
  BY <1>1, <1>2, <1>3, <1>4, StartActs
<1> QED
  BY <1>3, <1>4, <1>5

(* An adjustment and its movement agree, but for an outward type with a    *)
(* negative quantity.                                                      *)
LEMMA DeltaAgrees ==
    ASSUME NEW t \in MoveTypes, NEW n \in Int
    PROVE  /\ AdjustmentDelta(t, n) \in Int
           /\ ~ (t \in OutTypes /\ n < 0) => AdjustmentDelta(t, n) = Signed(t, n)
<1>1. t \in InTypes \cup OutTypes \cup PaperTypes
  BY DEF MoveTypes
<1>2. CASE t \in InTypes
  <2>1. AdjustmentDelta(t, n) = n
    BY <1>2 DEF AdjustmentDelta, InTypes, OutTypes, PaperTypes
  <2> QED
    BY <1>2, <2>1, SignedType DEF InTypes, OutTypes
<1>3. CASE t \in OutTypes
  <2>1. AdjustmentDelta(t, n) = 0 - Magnitude(n)
    BY <1>3 DEF AdjustmentDelta, Magnitude, InTypes, OutTypes, PaperTypes
  <2>2. Magnitude(n) \in Int /\ (n >= 0 => Magnitude(n) = n)
    BY DEF Magnitude
  <2>3. Signed(t, n) = 0 - n
    BY <1>3, SignedType
  <2>4. AdjustmentDelta(t, n) \in Int
    BY <2>1, <2>2
  <2>5. ~ (n < 0) => AdjustmentDelta(t, n) = Signed(t, n)
    BY <2>1, <2>2, <2>3
  <2> QED
    BY <1>3, <2>4, <2>5
<1>4. CASE t \in PaperTypes
  <2>1. AdjustmentDelta(t, n) = 0
    BY <1>4 DEF AdjustmentDelta, InTypes, OutTypes, PaperTypes
  <2> QED
    BY <1>4, <2>1, SignedType
<1> QED
  BY <1>1, <1>2, <1>3, <1>4

LEMMA CommitAdjustActs ==
    ASSUME TypeInv, NEW c \in Clients, CommitAdjust(c)
    PROVE  /\ TypeInv'
           /\ UNCHANGED <<orders, claims>>
           /\ req[c].op = "adjust" /\ req[c].part \in Parts
           /\ \A r \in Parts : row'[r].cost = row[r].cost
           /\ \/ /\ disturbed' = disturbed
                 /\ row'[req[c].part].qty - row[req[c].part].qty =
                        moved'[req[c].part] - moved[req[c].part]
              \/ disturbed' = disturbed \cup {req[c].part}
           /\ \A r \in Parts : r # req[c].part => row'[r] = row[r] /\ moved'[r] = moved[r]
           /\ req'[c] = Idle
           /\ \A d \in Clients : d # c => req'[d] = req[d]
<1> DEFINE q == req[c]
           delta == AdjustmentDelta(q.type, q.qty)
<1>1. /\ q.op = "adjust"
      /\ Record(q.type, q.part, q.qty)
      /\ Shift(q.part, delta)
      /\ disturbed' = IF q.type \in OutTypes /\ q.qty < 0
                      THEN disturbed \cup {q.part} ELSE disturbed
      /\ Done(c)
      /\ UNCHANGED <<orders, claims>>
  BY DEF CommitAdjust
<1>2. q.part \in Parts /\ Exists(q.part) /\ q.qty \in Int /\ q.type \in MoveTypes
  <2>1. q \in Requests /\ StillThere(q)
    BY Tables
  <2>2. q.part \in Parts /\ q.qty \in AdjustQtys /\ q.type \in AdjustTypes
    BY <1>1, <2>1, RequestShapes
  <2>3. q.qty \in Int
    BY <2>2, InventoryAssumption
  <2>4. q.type \in MoveTypes
    BY <2>2, InventoryAssumption
  <2>5. Exists(q.part)
    BY <1>1, <2>1 DEF StillThere
  <2> QED
    BY <2>2, <2>3, <2>4, <2>5
<1> HIDE DEF q
<1>3. /\ delta \in Int
      /\ ~ (q.type \in OutTypes /\ q.qty < 0) => delta = Signed(q.type, q.qty)
  BY <1>2, DeltaAgrees
<1> HIDE DEF delta
<1>4. /\ moved' \in [Parts -> Int]
      /\ moved'[q.part] = moved[q.part] + Signed(q.type, q.qty)
      /\ \A r \in Parts : r # q.part => moved'[r] = moved[r]
  BY <1>1, <1>2, RecordActs
<1>5. /\ RowsStay
      /\ row'[q.part].qty = row[q.part].qty + delta
      /\ row'[q.part].cost = row[q.part].cost
      /\ \A r \in Parts : r # q.part => row'[r] = row[r]
  BY <1>1, <1>2, <1>3, ShiftActs
<1>6. /\ RequestsStay
      /\ req'[c] = Idle
      /\ \A d \in Clients : d # c => req'[d] = req[d]
  BY <1>1, DoneActs
<1>7. TypeInv'
  BY <1>1, <1>2, <1>4, <1>5, <1>6, Tables, Untouched, TypesStay
<1>8. \/ /\ disturbed' = disturbed
         /\ row'[q.part].qty - row[q.part].qty = moved'[q.part] - moved[q.part]
      \/ disturbed' = disturbed \cup {q.part}
  <2>1. row[q.part].qty \in Int /\ moved[q.part] \in Int /\ Signed(q.type, q.qty) \in Int
    <3>1. row[q.part].qty \in Int
      BY <1>2, RowShapes
    <3>2. moved[q.part] \in Int
      BY <1>2, Tables
    <3>3. Signed(q.type, q.qty) \in Int
      BY <1>2, SignedType
    <3> QED
      BY <3>1, <3>2, <3>3
  <2> QED
    BY <1>1, <1>3, <1>4, <1>5, <2>1
<1>9. \A r \in Parts : row'[r].cost = row[r].cost
  BY <1>5
<1> QED
  BY <1>1, <1>2, <1>4, <1>5, <1>6, <1>7, <1>8, <1>9 DEF q

-----------------------------------------------------------------------------
(* A unit is sold, a request ends early.                                   *)
LEMMA SellActs ==
    ASSUME TypeInv, NEW p \in Parts, Sell(p)
    PROVE  /\ TypeInv'
           /\ UNCHANGED <<orders, claims, disturbed, req>>
           /\ \A r \in Parts : row'[r].qty - row[r].qty = moved'[r] - moved[r]
           /\ \A r \in Parts : row'[r].cost = row[r].cost
<1>1. /\ Exists(p) /\ Shift(p, -1) /\ Record("SALE", p, 1)
      /\ UNCHANGED <<orders, claims, disturbed, req>>
  BY DEF Sell
<1>2. "SALE" \in MoveTypes /\ "SALE" \in OutTypes
  BY DEF MoveTypes, OutTypes
<1>3. /\ RowsStay
      /\ row'[p].qty = row[p].qty + (-1)
      /\ row'[p].cost = row[p].cost
      /\ \A r \in Parts : r # p => row'[r] = row[r]
  BY <1>1, ShiftActs
<1>4. /\ moved' \in [Parts -> Int]
      /\ moved'[p] = moved[p] + (0 - 1)
      /\ \A r \in Parts : r # p => moved'[r] = moved[r]
  BY <1>1, <1>2, RecordActs, SignedType
<1>5. TypeInv'
  BY <1>1, <1>3, <1>4, Untouched, TypesStay
<1>6. ASSUME NEW r \in Parts
      PROVE  row'[r].qty - row[r].qty = moved'[r] - moved[r] /\ row'[r].cost = row[r].cost
  <2>1. row[r].qty \in Int /\ moved[r] \in Int
    BY RowShapes, Tables
  <2> QED
    BY <1>3, <1>4, <2>1
<1> QED
  BY <1>1, <1>5, <1>6

LEMMA AbandonActs ==
    ASSUME TypeInv, NEW c \in Clients, Abandon(c)
    PROVE  /\ TypeInv'
           /\ UNCHANGED <<row, moved, orders, claims>>
           /\ disturbed' = IF req[c].op = "opening"
                           THEN disturbed \cup {req[c].part} ELSE disturbed
           /\ req'[c] = Idle
           /\ \A d \in Clients : d # c => req'[d] = req[d]
<1>1. /\ Done(c)
      /\ disturbed' = IF req[c].op = "opening"
                      THEN disturbed \cup {req[c].part} ELSE disturbed
      /\ UNCHANGED <<row, moved, orders, claims>>
  BY DEF Abandon
<1>2. req[c].op = "opening" => req[c].part \in Parts
  BY Tables, RequestShapes
<1>3. /\ RequestsStay
      /\ req'[c] = Idle
      /\ \A d \in Clients : d # c => req'[d] = req[d]
  BY <1>1, DoneActs
<1> QED
  BY <1>1, <1>2, <1>3, Tables, Untouched, TypesStay

-----------------------------------------------------------------------------
(* The steps of the marketplace.                                           *)

(* What an order asks for, and what it holds of a part.                    *)
LEMMA OrderShapes ==
    ASSUME NEW order \in Order, NEW p \in Parts
    PROVE  /\ order.items \in Quantities /\ order.items[p] \in Nat
           /\ order.taken \subseteq Parts /\ order.restored \in Nat
           /\ p \in Listed(order.items) <=> order.items[p] > 0
           /\ Held(order, p) \in Int
<1>1. /\ order.items \in Quantities /\ order.items[p] \in Nat
      /\ order.taken \subseteq Parts /\ order.restored \in Nat
  BY DEF Order, Quantities
<1>2. p \in Listed(order.items) <=> order.items[p] > 0
  BY DEF Listed
<1>3. Held(order, p) \in Int
  <2> DEFINE k == (IF p \in order.taken THEN 1 ELSE 0) - order.restored
  <2>1. k \in Int
    BY <1>1
  <2> HIDE DEF k
  <2>2. order.items[p] * k \in Int
    BY <1>1, <2>1
  <2> QED
    BY <2>2 DEF Held, k
<1> QED
  BY <1>1, <1>2, <1>3

LEMMA BeginOrderActs ==
    ASSUME TypeInv, NEW c \in Clients, BeginOrder(c)
    PROVE  /\ TypeInv'
           /\ UNCHANGED tables
           /\ req'[c].op = "order" /\ req[c].op = "idle"
           /\ \A d \in Clients : d # c => req'[d] = req[d]
<1>1. PICK items \in Baskets :
        /\ req[c].op = "idle"
        /\ \A p \in Listed(items) : Exists(p) /\ row[p].qty >= items[p]
        /\ req' = [req EXCEPT ![c] = [op |-> "order", items |-> items]]
        /\ UNCHANGED tables
  BY DEF BeginOrder
<1> DEFINE q == [op |-> "order", items |-> items]
<1>2. q \in Requests /\ q.op = "order" /\ Named(q)
  BY <1>1 DEF Requests, OrderReq, Named
<1>3. UNCHANGED <<row, moved, orders, claims, disturbed>> /\ req' = [req EXCEPT ![c] = q]
  BY <1>1 DEF tables
<1> HIDE DEF q
<1>4. /\ RequestsStay
      /\ req'[c] = q
      /\ \A d \in Clients : d # c => req'[d] = req[d]
  BY <1>2, <1>3, RequestTurns
<1>5. TypeInv'
  BY <1>3, <1>4, Untouched, TypesStay
<1> QED
  BY <1>1, <1>2, <1>4, <1>5

LEMMA CreateOrderActs ==
    ASSUME TypeInv, NEW c \in Clients, CreateOrder(c)
    PROVE  /\ TypeInv'
           /\ UNCHANGED <<row, moved, claims, disturbed>>
           /\ Len(orders') = Len(orders) + 1
           /\ orders'[Len(orders) + 1].taken = {}
           /\ orders'[Len(orders) + 1].restored = 0
           /\ \A o \in 1..Len(orders) : orders'[o] = orders[o]
           /\ req'[c].op = "deduct" /\ req[c].op = "order"
           /\ \A d \in Clients : d # c => req'[d] = req[d]
<1> DEFINE x == [items |-> req[c].items, status |-> "PENDING", taken |-> {}, restored |-> 0]
           q == [op |-> "deduct", order |-> Len(orders) + 1]
<1>1. /\ req[c].op = "order"
      /\ orders' = Append(orders, x)
      /\ req' = [req EXCEPT ![c] = q]
      /\ UNCHANGED <<row, moved, claims, disturbed>>
  BY DEF CreateOrder
<1>2. req[c].items \in Baskets /\ \A p \in Listed(req[c].items) : Exists(p)
  BY <1>1, Tables, RequestShapes DEF TypeInv, Present
<1>3. x \in Order /\ x.items = req[c].items /\ x.taken = {} /\ x.restored = 0
  BY <1>2, MarketplaceAssumption DEF Order, Statuses
<1> HIDE DEF x
<1>4. orders \in Seq(Order) /\ Len(orders) \in Nat
  BY Tables
<1>5. /\ orders' \in Seq(Order)
      /\ Len(orders') = Len(orders) + 1
      /\ orders'[Len(orders) + 1] = x
      /\ \A o \in 1..Len(orders) : orders'[o] = orders[o]
  BY <1>1, <1>3, <1>4
<1>6. OrdersStay
  BY <1>2, <1>3, <1>4, <1>5 DEF OrdersStay
<1>7. q \in Requests /\ Named(q) /\ q.op = "deduct"
  BY <1>4, <1>5 DEF Requests, OrderReq, Named
<1> HIDE DEF q
<1>8. /\ RequestsStay
      /\ req'[c] = q
      /\ \A d \in Clients : d # c => req'[d] = req[d]
  BY <1>1, <1>7, RequestTurns
<1>9. TypeInv'
  BY <1>1, <1>6, <1>8, Untouched, TypesStay
<1> QED
  BY <1>1, <1>3, <1>5, <1>7, <1>8, <1>9

LEMMA DeductItemActs ==
    ASSUME TypeInv, NEW c \in Clients, DeductItem(c)
    PROVE  /\ TypeInv'
           /\ UNCHANGED <<moved, claims, disturbed, req>>
           /\ Len(orders') = Len(orders)
           /\ \A r \in Parts : row'[r].cost = row[r].cost
           /\ \E o \in 1..Len(orders), p \in Parts :
                /\ row'[p].qty = row[p].qty - orders[o].items[p]
                /\ \A r \in Parts : r # p => row'[r] = row[r]
                /\ p \notin orders[o].taken
                /\ orders'[o].items = orders[o].items
                /\ orders'[o].taken = orders[o].taken \cup {p}
                /\ orders'[o].restored = orders[o].restored
                /\ \A k \in 1..Len(orders) : k # o => orders'[k] = orders[k]
<1> DEFINE o == req[c].order
<1>1. req[c].op = "deduct" /\ UNCHANGED <<moved, claims, disturbed, req>>
  BY DEF DeductItem
<1>2. o \in 1..Len(orders)
  BY <1>1, Tables DEF StillThere
<1>3. PICK p \in Listed(orders[o].items) \ orders[o].taken :
        /\ Shift(p, -orders[o].items[p])
        /\ orders' = [orders EXCEPT ![o].taken = @ \cup {p}]
  BY DEF DeductItem
<1> HIDE DEF o
<1> DEFINE x == [orders[o] EXCEPT !.taken = orders[o].taken \cup {p}]
<1>4. p \in Parts /\ Exists(p) /\ orders[o] \in Order
  BY <1>2, Tables DEF TypeInv, Present, Listed
<1>5. orders[o].items[p] \in Nat /\ -orders[o].items[p] \in Int
  BY <1>4, OrderShapes
<1>6. /\ RowsStay
      /\ row'[p].qty = row[p].qty + (-orders[o].items[p])
      /\ row'[p].cost = row[p].cost
      /\ \A r \in Parts : r # p => row'[r] = row[r]
  BY <1>3, <1>4, <1>5, ShiftActs
<1>7. row'[p].qty = row[p].qty - orders[o].items[p]
  <2>1. row[p].qty \in Nat
    BY <1>4, RowShapes
  <2> QED
    BY <1>5, <1>6, <2>1
<1>8. /\ x \in Order /\ x.items = orders[o].items
      /\ x.taken = orders[o].taken \cup {p} /\ x.restored = orders[o].restored
  BY <1>4 DEF Order
<1>9. orders' = [orders EXCEPT ![o] = x]
  BY <1>3
<1> HIDE DEF x
<1>10. /\ OrdersStay
       /\ Len(orders') = Len(orders)
       /\ orders'[o] = x
       /\ \A k \in 1..Len(orders) : k # o => orders'[k] = orders[k]
  BY <1>2, <1>8, <1>9, OrderWritten
<1>11. TypeInv'
  BY <1>1, <1>6, <1>10, Untouched, TypesStay
<1>12. \A r \in Parts : row'[r].cost = row[r].cost
  BY <1>6
<1>13. p \notin orders[o].taken
  BY <1>3
<1> QED
  BY <1>1, <1>2, <1>4, <1>6, <1>7, <1>8, <1>10, <1>11, <1>12, <1>13

LEMMA AcceptOrderActs ==
    ASSUME TypeInv, NEW c \in Clients, AcceptOrder(c)
    PROVE  /\ TypeInv'
           /\ UNCHANGED tables
           /\ req'[c] = Idle /\ req[c].op = "deduct"
           /\ \A d \in Clients : d # c => req'[d] = req[d]
<1>1. Done(c) /\ UNCHANGED <<row, moved, orders, claims, disturbed>> /\ req[c].op = "deduct"
  BY DEF AcceptOrder, tables
<1>2. /\ RequestsStay
      /\ req'[c] = Idle
      /\ \A d \in Clients : d # c => req'[d] = req[d]
  BY <1>1, DoneActs
<1> QED
  BY <1>1, <1>2, Untouched, TypesStay DEF tables

(* A new status of an order, by request or by payment.                     *)
LEMMA StatusActs ==
    ASSUME TypeInv, NEW o \in 1..Len(orders), NEW status \in Statuses,
           orders' = [orders EXCEPT ![o].status = status],
           UNCHANGED <<row, moved, claims, disturbed, req>>
    PROVE  /\ TypeInv'
           /\ Len(orders') = Len(orders)
           /\ \A k \in 1..Len(orders) :
                /\ orders'[k].items = orders[k].items /\ orders'[k].taken = orders[k].taken
                /\ orders'[k].restored = orders[k].restored
<1> DEFINE x == [orders[o] EXCEPT !.status = status]
<1>1. orders[o] \in Order
  BY Tables
<1>2. /\ x \in Order /\ x.items = orders[o].items
      /\ x.taken = orders[o].taken /\ x.restored = orders[o].restored
  BY <1>1 DEF Order
<1>3. orders' = [orders EXCEPT ![o] = x]
  OBVIOUS
<1> HIDE DEF x
<1>4. /\ OrdersStay
      /\ Len(orders') = Len(orders)
      /\ orders'[o] = x
      /\ \A k \in 1..Len(orders) : k # o => orders'[k] = orders[k]
  BY <1>2, <1>3, OrderWritten
<1>5. TypeInv'
  BY <1>4, Untouched, TypesStay
<1> QED
  BY <1>2, <1>4, <1>5

LEMMA CancelOrderActs ==
    ASSUME TypeInv, NEW o \in 1..Len(orders), CancelOrder(o)
    PROVE  /\ TypeInv'
           /\ UNCHANGED <<moved, claims, disturbed, req>>
           /\ \A p \in Parts : /\ row'[p].qty = row[p].qty + orders[o].items[p]
                               /\ row'[p].cost = row[p].cost
           /\ Len(orders') = Len(orders)
           /\ orders'[o].items = orders[o].items /\ orders'[o].taken = orders[o].taken
           /\ orders'[o].restored = orders[o].restored + 1
           /\ \A k \in 1..Len(orders) : k # o => orders'[k] = orders[k]
<1> DEFINE old == orders[o]
           restored == orders[o].restored + 1
           x == [old EXCEPT !.status = "CANCELLED", !.restored = restored]
<1>1. /\ row' = [p \in Parts |-> [row[p] EXCEPT !.qty = @ + orders[o].items[p]]]
      /\ orders' = [orders EXCEPT ![o] = x]
      /\ UNCHANGED <<moved, claims, disturbed, req>>
  BY Tables DEF CancelOrder
<1>2. orders[o] \in Order
  BY Tables
<1>3. old \in Order /\ restored \in Nat
  BY <1>2 DEF Order
<1> HIDE DEF old, restored
<1>4. /\ x \in Order /\ x.items = old.items
      /\ x.taken = old.taken /\ x.restored = restored
  BY <1>3 DEF Order, Statuses
<1> HIDE DEF x
<1>5. /\ OrdersStay
      /\ Len(orders') = Len(orders)
      /\ orders'[o] = x
      /\ \A k \in 1..Len(orders) : k # o => orders'[k] = orders[k]
  BY <1>1, <1>4, OrderWritten DEF old
<1>6. ASSUME NEW p \in Parts
      PROVE  /\ row'[p] \in Row \cup {NoRow}
             /\ Exists(p) => row'[p] # NoRow
             /\ row'[p].qty = row[p].qty + orders[o].items[p]
             /\ row'[p].cost = row[p].cost
  <2> DEFINE n == row[p].qty + orders[o].items[p]
  <2>1. row[p].qty \in Nat /\ orders[o].items[p] \in Nat
    BY <1>2, OrderShapes, RowShapes
  <2>2. row'[p] = [row[p] EXCEPT !.qty = n]
    BY <1>1
  <2>3. CASE Exists(p)
    <3>1. row[p] \in Row /\ n \in Nat
      BY <2>1, <2>3, RowShapes
    <3> HIDE DEF n
    <3>2. row'[p] \in Row /\ row'[p].qty = n /\ row'[p].cost = row[p].cost
      BY <2>2, <3>1 DEF Row
    <3>3. row'[p] # NoRow
      BY <3>2 DEF Row, NoRow
    <3> QED
      BY <3>2, <3>3 DEF n
  <2>4. CASE ~Exists(p)
    <3>1. row[p] = NoRow
      BY <2>4 DEF Exists
    <3>2. orders[o].items[p] = 0
      BY <1>2, <2>1, <2>4, OrderShapes DEF TypeInv, Present
    <3>3. n = 0 /\ row[p].qty = 0
      BY <3>1, <3>2 DEF NoRow
    <3>4. row'[p] = NoRow
      BY <2>2, <3>1, <3>3 DEF NoRow
    <3> QED
      BY <2>4, <3>1, <3>2, <3>3, <3>4 DEF NoRow
  <2> QED
    BY <2>3, <2>4
<1>7. RowsStay
  BY <1>1, <1>6 DEF RowsStay
<1>8. TypeInv'
  BY <1>1, <1>5, <1>7, Untouched, TypesStay
<1> QED
  BY <1>1, <1>4, <1>5, <1>6, <1>8 DEF old, restored

-----------------------------------------------------------------------------
(* The steps of the warranty desk.                                         *)
LEMMA OpenClaimActs ==
    ASSUME TypeInv, NEW p \in Parts, NEW n \in ClaimQtys, OpenClaim(p, n)
    PROVE  /\ TypeInv'
           /\ UNCHANGED <<row, moved, orders, disturbed, req>>
           /\ Len(claims') = Len(claims) + 1
           /\ claims'[Len(claims) + 1].status = "SENT_TO_SUPPLIER"
           /\ claims'[Len(claims) + 1].in = 0 /\ claims'[Len(claims) + 1].out = 0
           /\ \A k \in 1..Len(claims) : claims'[k] = claims[k]
<1> DEFINE x == [part |-> p, qty |-> n, status |-> "SENT_TO_SUPPLIER",
                 version |-> 0, in |-> 0, out |-> 0]
<1>1. Exists(p) /\ claims' = Append(claims, x) /\ UNCHANGED <<row, moved, orders, disturbed, req>>
  BY DEF OpenClaim
<1>2. x \in Claim /\ x.part = p /\ x.status = "SENT_TO_SUPPLIER" /\ x.in = 0 /\ x.out = 0
  BY DEF Claim, ClaimStatuses
<1> HIDE DEF x
<1>3. claims \in Seq(Claim) /\ Len(claims) \in Nat
  BY Tables
<1>4. /\ claims' \in Seq(Claim)
      /\ Len(claims') = Len(claims) + 1
      /\ claims'[Len(claims) + 1] = x
      /\ \A k \in 1..Len(claims) : claims'[k] = claims[k]
  BY <1>1, <1>2, <1>3
<1>5. ASSUME NEW k \in 1..Len(claims)
      PROVE  claims[k].version \in Int
  <2>1. claims[k] \in Claim
    BY Tables
  <2> QED
    BY <2>1 DEF Claim
<1>6. ClaimsStay
  BY <1>1, <1>2, <1>3, <1>4, <1>5 DEF ClaimsStay
<1>7. TypeInv'
  BY <1>1, <1>6, Untouched, TypesStay
<1> QED
  BY <1>1, <1>2, <1>4, <1>7

LEMMA BeginClaimActs ==
    ASSUME TypeInv, NEW c \in Clients, BeginClaim(c)
    PROVE  /\ TypeInv'
           /\ UNCHANGED tables
           /\ req'[c].op = "claim" /\ req[c].op = "idle"
           /\ req'[c].to \in ClaimTransitions[claims[req'[c].claim].status]
           /\ \A d \in Clients : d # c => req'[d] = req[d]
<1>1. PICK n \in 1..Len(claims) : \E v \in 0..claims[n].version, to \in ClaimStatuses :
        /\ req[c].op = "idle"
        /\ to \in ClaimTransitions[claims[n].status]
        /\ req' = [req EXCEPT ![c] = [op |-> "claim", claim |-> n, to |-> to, version |-> v]]
        /\ UNCHANGED tables
  BY DEF BeginClaim
<1>2. PICK v \in 0..claims[n].version, to \in ClaimStatuses :
        /\ req[c].op = "idle"
        /\ to \in ClaimTransitions[claims[n].status]
        /\ req' = [req EXCEPT ![c] = [op |-> "claim", claim |-> n, to |-> to, version |-> v]]
        /\ UNCHANGED tables
  BY <1>1
<1> DEFINE q == [op |-> "claim", claim |-> n, to |-> to, version |-> v]
<1>3. UNCHANGED <<row, moved, orders, claims, disturbed>> /\ req' = [req EXCEPT ![c] = q]
  BY <1>2 DEF tables
<1>4. claims[n].version \in Nat /\ Len(claims) \in Nat
  <2>1. claims[n] \in Claim
    BY Tables
  <2> QED
    BY <2>1, Tables DEF Claim
<1>5. /\ q \in Requests /\ q.op = "claim" /\ Named(q)
      /\ q.to \in ClaimTransitions[claims[q.claim].status]
  <2>1. v \in Nat /\ v <= claims[n].version /\ n \in Nat
    BY <1>4
  <2>2. q \in Requests
    BY <2>1 DEF Requests, ClaimReq
  <2> QED
    BY <1>2, <1>3, <2>1, <2>2 DEF Named
<1> HIDE DEF q
<1>6. /\ RequestsStay
      /\ req'[c] = q
      /\ \A d \in Clients : d # c => req'[d] = req[d]
  BY <1>3, <1>5, RequestTurns
<1>7. TypeInv'
  BY <1>3, <1>6, Untouched, TypesStay
<1> QED
  BY <1>2, <1>5, <1>6, <1>7

(* What a claim becomes, whatever status it turns to.                      *)
LEMMA AdvancedActs ==
    ASSUME NEW claim \in Claim, NEW to \in ClaimStatuses
    PROVE  LET x == Advanced(claim, to) IN
           /\ x \in Claim /\ x.part = claim.part /\ x.status = to
           /\ x.version = claim.version + 1 /\ claim.version \in Nat
           /\ x.in = IF to = "REPLACEMENT_RECEIVED" THEN claim.in + 1 ELSE claim.in
           /\ x.out = IF to = "RETURNED_TO_CUSTOMER" THEN claim.out + 1 ELSE claim.out
<1>1. /\ claim.version + 1 \in Nat /\ claim.version \in Nat
      /\ claim.in \in Nat /\ claim.in + 1 \in Nat
      /\ claim.out \in Nat /\ claim.out + 1 \in Nat
  BY DEF Claim
<1> DEFINE version == claim.version + 1
           in == IF to = "REPLACEMENT_RECEIVED" THEN claim.in + 1 ELSE claim.in
           out == IF to = "RETURNED_TO_CUSTOMER" THEN claim.out + 1 ELSE claim.out
           x == [claim EXCEPT !.status = to, !.version = version, !.in = in, !.out = out]
<1>2. Advanced(claim, to) = x
  BY DEF Advanced
<1>3. version \in Nat /\ in \in Nat /\ out \in Nat
  BY <1>1
<1> HIDE DEF version, in, out
<1>4. /\ x \in Claim /\ x.part = claim.part /\ x.status = to
      /\ x.version = version /\ x.in = in /\ x.out = out
  BY <1>3 DEF Claim
<1> HIDE DEF x
<1> QED
  BY <1>1, <1>2, <1>4 DEF version, in, out

LEMMA CommitClaimActs ==
    ASSUME TypeInv, NEW c \in Clients, CommitClaim(c)
    PROVE  /\ TypeInv'
           /\ UNCHANGED <<orders, disturbed>>
           /\ req[c].op = "claim" /\ req[c].claim \in 1..Len(claims)
           /\ req[c].to \in ClaimStatuses
           /\ req[c].version = claims[req[c].claim].version
           /\ Len(claims') = Len(claims)
           /\ claims'[req[c].claim] = Advanced(claims[req[c].claim], req[c].to)
           /\ \A k \in 1..Len(claims) : k # req[c].claim => claims'[k] = claims[k]
           /\ \A r \in Parts : row'[r].qty - row[r].qty = moved'[r] - moved[r]
           /\ \A r \in Parts : row'[r].cost = row[r].cost
           /\ req'[c] = Idle
           /\ \A d \in Clients : d # c => req'[d] = req[d]
<1> DEFINE q == req[c]
           claim == claims[q.claim]
           x == Advanced(claim, q.to)
<1>1. /\ q.op = "claim"
      /\ q.version = claim.version
      /\ claims' = [claims EXCEPT ![q.claim] = x]
      /\ Done(c)
      /\ UNCHANGED <<orders, disturbed>>
  BY Tables DEF CommitClaim, ClaimCurrent
<1>2. \/ Shift(claim.part, claim.qty) /\ Record("WARRANTY_IN", claim.part, claim.qty)
      \/ Shift(claim.part, -claim.qty) /\ Record("WARRANTY_OUT", claim.part, claim.qty)
      \/ UNCHANGED <<row, moved>>
  <2>1. CASE q.to = "REPLACEMENT_RECEIVED"
    BY <2>1 DEF CommitClaim
  <2>2. CASE q.to = "RETURNED_TO_CUSTOMER"
    BY <2>2 DEF CommitClaim
  <2>3. CASE q.to # "REPLACEMENT_RECEIVED" /\ q.to # "RETURNED_TO_CUSTOMER"
    BY <2>3 DEF CommitClaim
  <2> QED
    BY <2>1, <2>2, <2>3
<1>3. q.claim \in 1..Len(claims) /\ q.to \in ClaimStatuses
  <2>1. q \in Requests /\ StillThere(q)
    BY Tables
  <2>2. q.claim \in 1..Len(claims)
    BY <1>1, <2>1 DEF StillThere
  <2>3. q.to \in ClaimStatuses
    BY <1>1, <2>1, RequestShapes
  <2> QED
    BY <2>2, <2>3
<1>4. /\ claim \in Claim /\ claim.part \in Parts /\ claim.qty \in Nat
      /\ Exists(claim.part)
  <2>1. claim \in Claim
    BY <1>3, Tables
  <2>2. claim.part \in Parts /\ claim.qty \in Nat
    BY <2>1, WarrantyAssumption DEF Claim
  <2>3. Exists(claim.part)
    BY <1>3 DEF TypeInv, Present
  <2> QED
    BY <2>1, <2>2, <2>3
<1> HIDE DEF q
<1>5. /\ x \in Claim /\ x.part = claim.part /\ x.version = claim.version + 1
      /\ claim.version \in Nat
  BY <1>3, <1>4, AdvancedActs
<1> HIDE DEF x
<1>6. /\ ClaimsStay
      /\ Len(claims') = Len(claims)
      /\ claims'[q.claim] = x
      /\ \A k \in 1..Len(claims) : k # q.claim => claims'[k] = claims[k]
  <2>1. claim.version <= x.version
    BY <1>5
  <2> QED
    BY <1>1, <1>3, <1>5, <2>1, ClaimWritten
<1> HIDE DEF claim
<1>7. /\ RowsStay /\ moved' \in [Parts -> Int]
      /\ \A r \in Parts : /\ row'[r].qty - row[r].qty = moved'[r] - moved[r]
                          /\ row'[r].cost = row[r].cost
  <2>1. /\ "WARRANTY_IN" \in MoveTypes /\ "WARRANTY_IN" \in InTypes
        /\ "WARRANTY_OUT" \in MoveTypes /\ "WARRANTY_OUT" \in OutTypes
    BY DEF MoveTypes, InTypes, OutTypes
  <2>2. -claim.qty \in Int /\ claim.qty \in Int
    BY <1>4
  <2>3. \A r \in Parts : row[r].qty \in Int /\ moved[r] \in Int
    BY RowShapes, Tables
  <2>4. CASE Shift(claim.part, claim.qty) /\ Record("WARRANTY_IN", claim.part, claim.qty)
    <3>1. /\ RowsStay
          /\ row'[claim.part].qty = row[claim.part].qty + claim.qty
          /\ row'[claim.part].cost = row[claim.part].cost
          /\ \A r \in Parts : r # claim.part => row'[r] = row[r]
      BY <1>4, <2>2, <2>4, ShiftActs
    <3>2. /\ moved' \in [Parts -> Int]
          /\ moved'[claim.part] = moved[claim.part] + claim.qty
          /\ \A r \in Parts : r # claim.part => moved'[r] = moved[r]
      BY <1>4, <2>1, <2>2, <2>4, RecordActs, SignedType
    <3> QED
      BY <1>4, <2>2, <2>3, <3>1, <3>2
  <2>5. CASE Shift(claim.part, -claim.qty) /\ Record("WARRANTY_OUT", claim.part, claim.qty)
    <3>1. /\ RowsStay
          /\ row'[claim.part].qty = row[claim.part].qty + (-claim.qty)
          /\ row'[claim.part].cost = row[claim.part].cost
          /\ \A r \in Parts : r # claim.part => row'[r] = row[r]
      BY <1>4, <2>2, <2>5, ShiftActs
    <3>2. /\ moved' \in [Parts -> Int]
          /\ moved'[claim.part] = moved[claim.part] + (0 - claim.qty)
          /\ \A r \in Parts : r # claim.part => moved'[r] = moved[r]
      BY <1>4, <2>1, <2>2, <2>5, RecordActs, SignedType
    <3> QED
      BY <1>4, <2>2, <2>3, <3>1, <3>2
  <2>6. CASE UNCHANGED <<row, moved>>
    <3>1. RowsStay /\ moved' \in [Parts -> Int]
      BY <2>6, Untouched
    <3> QED
      BY <2>3, <2>6, <3>1
  <2> QED
    BY <1>2, <2>4, <2>5, <2>6
<1>8. /\ RequestsStay
      /\ req'[c] = Idle
      /\ \A d \in Clients : d # c => req'[d] = req[d]
  BY <1>1, DoneActs
<1>9. TypeInv'
  BY <1>1, <1>6, <1>7, <1>8, Untouched, TypesStay
<1> QED
  BY <1>1, <1>3, <1>6, <1>7, <1>8, <1>9 DEF q, claim, x

-----------------------------------------------------------------------------
(* Types.                                                                  *)

(* A step is a step of one request, or of one row, order or claim.         *)
RequestStep(c) ==
    \/ BeginCreate(c) \/ CreateRow(c) \/ RecordOpening(c)
    \/ BeginEdit(c) \/ CommitCorrection(c) \/ CommitDetails(c)
    \/ BeginPurchase(c) \/ CommitPurchase(c)
    \/ BeginAdjust(c) \/ CommitAdjust(c)
    \/ BeginOrder(c) \/ CreateOrder(c) \/ DeductItem(c) \/ AcceptOrder(c)
    \/ BeginClaim(c) \/ CommitClaim(c)
    \/ Abandon(c)

OrderStep(o) == (\E status \in OrderSteps : SetStatus(o, status)) \/ CancelOrder(o) \/ PayOrder(o)

LEMMA NextCases ==
    ASSUME Next
    PROVE  \/ \E c \in Clients : RequestStep(c)
           \/ BulkStockIn
           \/ \E o \in 1..Len(orders) : OrderStep(o)
           \/ \E p \in Parts, n \in ClaimQtys : OpenClaim(p, n)
           \/ \E p \in Parts : Sell(p)
<1>1. Screens \subseteq Clients
  BY InventoryAssumption
<1>2. CASE InventoryNext
  BY <1>1, <1>2 DEF InventoryNext, RequestStep
<1>3. CASE MarketplaceNext
  BY <1>3 DEF MarketplaceNext, RequestStep, OrderStep
<1>4. CASE WarrantyNext
  BY <1>4 DEF WarrantyNext, RequestStep
<1>5. CASE (\E p \in Parts : Sell(p)) \/ (\E c \in Clients : Abandon(c))
  BY <1>5 DEF RequestStep
<1> QED
  BY <1>2, <1>3, <1>4, <1>5 DEF Next

(* An order's step changes its status, or cancels it.                      *)
LEMMA OrderStepCases ==
    ASSUME NEW o \in 1..Len(orders), OrderStep(o)
    PROVE  \/ CancelOrder(o)
           \/ \E status \in Statuses :
                /\ orders' = [orders EXCEPT ![o].status = status]
                /\ UNCHANGED <<row, moved, claims, disturbed, req>>
BY MarketplaceAssumption DEF OrderStep, SetStatus, PayOrder, Statuses

LEMMA RequestStepTypes ==
    ASSUME TypeInv, NEW c \in Clients, RequestStep(c)
    PROVE  TypeInv'
<1>1. CASE BeginCreate(c) \/ CreateRow(c) \/ RecordOpening(c)
  BY <1>1, BeginCreateActs, CreateRowActs, RecordOpeningActs
<1>2. CASE BeginEdit(c) \/ CommitCorrection(c) \/ CommitDetails(c)
  BY <1>2, BeginEditActs, CommitCorrectionActs, CommitDetailsActs
<1>3. CASE BeginPurchase(c) \/ CommitPurchase(c) \/ BeginAdjust(c) \/ CommitAdjust(c)
  BY <1>3, BeginPurchaseActs, CommitPurchaseActs, BeginAdjustActs, CommitAdjustActs
<1>4. CASE BeginOrder(c) \/ CreateOrder(c) \/ DeductItem(c) \/ AcceptOrder(c)
  BY <1>4, BeginOrderActs, CreateOrderActs, DeductItemActs, AcceptOrderActs
<1>5. CASE BeginClaim(c) \/ CommitClaim(c) \/ Abandon(c)
  BY <1>5, BeginClaimActs, CommitClaimActs, AbandonActs
<1> QED
  BY <1>1, <1>2, <1>3, <1>4, <1>5 DEF RequestStep

LEMMA StutterKeepsTypes ==
    ASSUME TypeInv, UNCHANGED vars
    PROVE  TypeInv'
<1>1. UNCHANGED <<row, moved, orders, claims, disturbed, req>>
  BY DEF vars, tables
<1> QED
  BY <1>1, Untouched, TypesStay

LEMMA InitTypes == Init => TypeInv
<1> SUFFICES ASSUME Init PROVE TypeInv
  OBVIOUS
<1>1. row \in [Parts -> Row \cup {NoRow}] /\ moved \in [Parts -> Int]
  BY StockroomAssumption DEF Init, Row, NoRow
<1>2. /\ orders = <<>> /\ claims = <<>> /\ Len(orders) = 0 /\ Len(claims) = 0
      /\ orders \in Seq(Order) /\ claims \in Seq(Claim)
  BY DEF Init
<1>3. /\ req \in [Clients -> Requests] /\ disturbed \subseteq Parts
      /\ \A c \in Clients : req[c].op = "idle"
  BY DEF Init, Idle, Requests
<1> QED
  BY <1>1, <1>2, <1>3 DEF TypeInv, TypeOK, Present, StillThere

LEMMA NextTypes == TypeInv /\ [Next]_vars => TypeInv'
<1> SUFFICES ASSUME TypeInv, [Next]_vars PROVE TypeInv'
  OBVIOUS
<1>1. ASSUME NEW c \in Clients, RequestStep(c) PROVE TypeInv'
  BY <1>1, RequestStepTypes
<1>2. CASE BulkStockIn
  BY <1>2, BulkStockInActs
<1>3. ASSUME NEW o \in 1..Len(orders), OrderStep(o) PROVE TypeInv'
  BY <1>3, OrderStepCases, CancelOrderActs, StatusActs
<1>4. ASSUME NEW p \in Parts, NEW n \in ClaimQtys, OpenClaim(p, n) PROVE TypeInv'
  BY <1>4, OpenClaimActs
<1>5. ASSUME NEW p \in Parts, Sell(p) PROVE TypeInv'
  BY <1>5, SellActs
<1>6. CASE UNCHANGED vars
  BY <1>6, StutterKeepsTypes
<1> QED
  BY <1>1, <1>2, <1>3, <1>4, <1>5, <1>6, NextCases

(* The types hold always: no stock is ever negative, and what an order, a  *)
(* claim or a request names is still there when it is written              *)
(* (inventory.js, marketplace.js and warrantyClaims.js).                   *)
THEOREM StockTypes == Spec => []TypeOK
<1>1. Spec => []TypeInv
  BY InitTypes, NextTypes, PTL DEF Spec
<1> QED
  BY <1>1, PTL DEF TypeInv

-----------------------------------------------------------------------------
(* Warranty claims.  A request that may still be granted, because the claim*)
(* has the version it was shown, asks for a transition the claim's status  *)
(* allows now: no status changes without the version.                      *)
Decided ==
    /\ ClaimMovesStockOnce
    /\ \A c \in Clients :
          req[c].op = "claim" /\ req[c].version = claims[req[c].claim].version =>
             req[c].to \in ClaimTransitions[claims[req[c].claim].status]

LEMMA DecidedAlone ==
    ASSUME TypeInv, Decided, UNCHANGED claims,
           \A c \in Clients : req'[c] = req[c] \/ req'[c].op # "claim"
    PROVE  Decided'
BY DEF Decided, ClaimMovesStockOnce

(* The transitions by name.                                                *)
LEMMA TransitionCases ==
    ASSUME NEW s \in ClaimStatuses, NEW to \in ClaimTransitions[s]
    PROVE  \/ s = "SENT_TO_SUPPLIER" /\ to \in {"APPROVED", "REJECTED"}
           \/ s = "APPROVED" /\ to = "REPLACEMENT_RECEIVED"
           \/ s = "REPLACEMENT_RECEIVED" /\ to = "RETURNED_TO_CUSTOMER"
<1>1. CASE s = "SENT_TO_SUPPLIER"
  BY <1>1 DEF ClaimTransitions
<1>2. CASE s = "APPROVED"
  BY <1>2 DEF ClaimTransitions
<1>3. CASE s = "REPLACEMENT_RECEIVED"
  BY <1>3 DEF ClaimTransitions
<1>4. CASE s = "REJECTED" \/ s = "RETURNED_TO_CUSTOMER"
  BY <1>4 DEF ClaimTransitions
<1> QED
  BY <1>1, <1>2, <1>3, <1>4 DEF ClaimStatuses

LEMMA BeginClaimDecides ==
    ASSUME TypeInv, Decided, NEW c \in Clients, BeginClaim(c)
    PROVE  Decided'
<1>1. /\ UNCHANGED claims
      /\ req'[c].to \in ClaimTransitions[claims[req'[c].claim].status]
      /\ \A d \in Clients : d # c => req'[d] = req[d]
  BY BeginClaimActs DEF tables
<1> QED
  BY <1>1 DEF Decided, ClaimMovesStockOnce

LEMMA OpenClaimDecides ==
    ASSUME TypeInv, Decided, NEW p \in Parts, NEW n \in ClaimQtys, OpenClaim(p, n)
    PROVE  Decided'
<1>1. /\ UNCHANGED req
      /\ Len(claims') = Len(claims) + 1
      /\ claims'[Len(claims) + 1].status = "SENT_TO_SUPPLIER"
      /\ claims'[Len(claims) + 1].in = 0 /\ claims'[Len(claims) + 1].out = 0
      /\ \A k \in 1..Len(claims) : claims'[k] = claims[k]
  BY OpenClaimActs
<1>2. Len(claims) \in Nat
  BY Tables
<1>3. ClaimMovesStockOnce'
  <2>1. ASSUME NEW k \in 1..Len(claims')
        PROVE  k \in 1..Len(claims) \/ k = Len(claims) + 1
    BY <1>1, <1>2
  <2> QED
    BY <1>1, <2>1 DEF Decided, ClaimMovesStockOnce
<1>4. \A c \in Clients : req[c].op = "claim" => req[c].claim \in 1..Len(claims)
  BY Tables DEF StillThere
<1> QED
  BY <1>1, <1>3, <1>4 DEF Decided

LEMMA CommitClaimDecides ==
    ASSUME TypeInv, Decided, NEW c \in Clients, CommitClaim(c)
    PROVE  Decided'
<1> DEFINE n == req[c].claim
           to == req[c].to
<1>1. /\ req[c].op = "claim" /\ n \in 1..Len(claims) /\ to \in ClaimStatuses
      /\ req[c].version = claims[n].version
      /\ Len(claims') = Len(claims)
      /\ claims'[n] = Advanced(claims[n], to)
      /\ \A k \in 1..Len(claims) : k # n => claims'[k] = claims[k]
      /\ req'[c].op # "claim"
      /\ \A d \in Clients : d # c => req'[d] = req[d]
  BY CommitClaimActs DEF Idle
<1>2. to \in ClaimTransitions[claims[n].status]
  BY <1>1 DEF Decided
<1>3. claims[n] \in Claim /\ claims[n].status \in ClaimStatuses
  <2>1. claims[n] \in Claim
    BY <1>1, Tables
  <2> QED
    BY <2>1 DEF Claim
<1> HIDE DEF n, to
<1>4. /\ claims'[n].status = to
      /\ claims'[n].version = claims[n].version + 1 /\ claims[n].version \in Nat
      /\ claims'[n].in = IF to = "REPLACEMENT_RECEIVED" THEN claims[n].in + 1 ELSE claims[n].in
      /\ claims'[n].out = IF to = "RETURNED_TO_CUSTOMER" THEN claims[n].out + 1 ELSE claims[n].out
  BY <1>1, <1>3, AdvancedActs
<1>5. /\ claims[n].in = IF claims[n].status \in
                            {"REPLACEMENT_RECEIVED", "RETURNED_TO_CUSTOMER"} THEN 1 ELSE 0
      /\ claims[n].out = IF claims[n].status = "RETURNED_TO_CUSTOMER" THEN 1 ELSE 0
  BY <1>1 DEF Decided, ClaimMovesStockOnce
<1>6. /\ claims'[n].in = IF claims'[n].status \in
                            {"REPLACEMENT_RECEIVED", "RETURNED_TO_CUSTOMER"} THEN 1 ELSE 0
      /\ claims'[n].out = IF claims'[n].status = "RETURNED_TO_CUSTOMER" THEN 1 ELSE 0
  BY <1>2, <1>3, <1>4, <1>5, TransitionCases
<1>7. ClaimMovesStockOnce'
  BY <1>1, <1>6 DEF Decided, ClaimMovesStockOnce
<1>8. ASSUME NEW d \in Clients, req'[d].op = "claim",
             req'[d].version = claims'[req'[d].claim].version
      PROVE  req'[d].to \in ClaimTransitions[claims'[req'[d].claim].status]
  <2>1. d # c /\ req'[d] = req[d]
    BY <1>1, <1>8
  <2>2. /\ req[d].claim \in 1..Len(claims)
        /\ req[d].version \in Nat /\ req[d].version <= claims[req[d].claim].version
    <3>1. req[d] \in Requests /\ StillThere(req[d])
      BY Tables
    <3> QED
      BY <1>8, <2>1, <3>1, RequestShapes DEF StillThere
  <2>3. CASE req[d].claim = n
    BY <1>4, <1>8, <2>1, <2>2, <2>3
  <2>4. CASE req[d].claim # n
    BY <1>1, <1>8, <2>1, <2>2, <2>4 DEF Decided
  <2> QED
    BY <2>3, <2>4
<1> QED
  BY <1>7, <1>8 DEF Decided

LEMMA RequestStepDecides ==
    ASSUME TypeInv, Decided, NEW c \in Clients, RequestStep(c)
    PROVE  Decided'
<1>1. CASE BeginCreate(c) \/ CreateRow(c) \/ RecordOpening(c)
  <2>1. UNCHANGED claims
    BY <1>1, BeginCreateActs, CreateRowActs, RecordOpeningActs DEF tables
  <2>2. \A d \in Clients : req'[d] = req[d] \/ req'[d].op # "claim"
    <3>1. \A d \in Clients : d # c => req'[d] = req[d]
      BY <1>1, BeginCreateActs, CreateRowActs, RecordOpeningActs
    <3>2. req'[c].op # "claim"
      BY <1>1, BeginCreateActs, CreateRowActs, RecordOpeningActs DEF Idle
    <3> QED
      BY <3>1, <3>2
  <2> QED
    BY <2>1, <2>2, DecidedAlone
<1>2. CASE BeginEdit(c) \/ CommitCorrection(c) \/ CommitDetails(c)
  BY <1>2, DecidedAlone, BeginEditActs, CommitCorrectionActs, CommitDetailsActs DEF tables, Idle
<1>3. CASE BeginPurchase(c) \/ CommitPurchase(c) \/ BeginAdjust(c) \/ CommitAdjust(c)
  BY <1>3, DecidedAlone, BeginPurchaseActs, CommitPurchaseActs, BeginAdjustActs, CommitAdjustActs
     DEF tables, Idle
<1>4. CASE BeginOrder(c) \/ CreateOrder(c) \/ AcceptOrder(c)
  BY <1>4, DecidedAlone, BeginOrderActs, CreateOrderActs, AcceptOrderActs DEF tables, Idle
<1>5. CASE DeductItem(c)
  BY <1>5, DecidedAlone, DeductItemActs
<1>6. CASE BeginClaim(c) \/ CommitClaim(c)
  BY <1>6, BeginClaimDecides, CommitClaimDecides
<1>7. CASE Abandon(c)
  BY <1>7, DecidedAlone, AbandonActs DEF Idle
<1> QED
  BY <1>1, <1>2, <1>3, <1>4, <1>5, <1>6, <1>7 DEF RequestStep

LEMMA NextDecides == TypeInv /\ Decided /\ [Next]_vars => Decided'
<1> SUFFICES ASSUME TypeInv, Decided, [Next]_vars PROVE Decided'
  OBVIOUS
<1>1. ASSUME NEW c \in Clients, RequestStep(c) PROVE Decided'
  BY <1>1, RequestStepDecides
<1>2. CASE BulkStockIn
  BY <1>2, DecidedAlone, BulkStockInActs
<1>3. ASSUME NEW o \in 1..Len(orders), OrderStep(o) PROVE Decided'
  <2>1. UNCHANGED <<claims, req>>
    BY <1>3, OrderStepCases, CancelOrderActs
  <2> QED
    BY <2>1, DecidedAlone
<1>4. ASSUME NEW p \in Parts, NEW n \in ClaimQtys, OpenClaim(p, n) PROVE Decided'
  BY <1>4, OpenClaimDecides
<1>5. ASSUME NEW p \in Parts, Sell(p) PROVE Decided'
  BY <1>5, DecidedAlone, SellActs
<1>6. CASE UNCHANGED vars
  BY <1>6, DecidedAlone DEF vars, tables
<1> QED
  BY <1>1, <1>2, <1>3, <1>4, <1>5, <1>6, NextCases

(* A claim brings its replacement into stock once and takes it out once,   *)
(* exactly when its status says so, however many requests about it have    *)
(* read it at the same time (warrantyClaims.js: the transition is checked  *)
(* on a claim read earlier, the version in the statement that writes it).  *)
THEOREM ClaimsMoveOnce == Spec => []ClaimMovesStockOnce
<1>1. Init => Decided
  BY DEF Init, Idle, Decided, ClaimMovesStockOnce
<1>2. Spec => [](TypeInv /\ Decided)
  BY <1>1, InitTypes, NextTypes, NextDecides, PTL DEF Spec
<1>3. Decided => ClaimMovesStockOnce
  BY DEF Decided
<1> QED
  BY <1>2, <1>3, PTL

-----------------------------------------------------------------------------
(* Cost prices.                                                            *)
Within(x) == x # NoPrice => \E lo, hi \in Prices : lo <= x /\ x <= hi

(* The price a purchase has read to average with was the price of a row.   *)
Priced ==
    /\ \A p \in Parts : Within(row[p].cost)
    /\ \A c \in Clients : req[c].op = "purchase" => Within(req[c].seenCost)

(* A quotient lies where its multiples say.                                *)
LEMMA Quotient ==
    ASSUME NEW N \in Nat, NEW D \in Nat, D > 0
    PROVE  /\ N \div D \in Nat
           /\ D * (N \div D) <= N
           /\ N < D * (N \div D + 1)
OBVIOUS

LEMMA TimesGrows ==
    ASSUME NEW a \in Nat, NEW b \in Nat, NEW d \in Nat, a <= b
    PROVE  d * a <= d * b
<1>1. PICK k \in Nat : b = a + k
  <2>1. b - a \in Nat /\ b = a + (b - a)
    OBVIOUS
  <2> QED
    BY <2>1
<1>2. d * b = d * a + d * k /\ d * k \in Nat /\ d * a \in Nat
  BY <1>1
<1> QED
  BY <1>2

(* Rounding keeps a quotient between the whole numbers it lies between.    *)
LEMMA RoundedBetween ==
    ASSUME NEW n \in Nat, NEW d \in Nat, d > 0, NEW lo \in Nat, NEW hi \in Nat,
           d * lo <= n, n <= d * hi
    PROVE  lo <= Rounded(n, d) /\ Rounded(n, d) <= hi
<1> DEFINE N == 2 * n + d
           D == 2 * d
           q == N \div D
<1>1. N \in Nat /\ D \in Nat /\ D > 0
  OBVIOUS
<1>2. q \in Nat /\ D * q <= N /\ N < D * (q + 1)
  <2> HIDE DEF N, D
  <2> QED
    BY <1>1, Quotient
<1>3. d * q \in Nat /\ d * (q + 1) = d * q + d /\ D * q = 2 * (d * q)
      /\ D * (q + 1) = 2 * (d * q) + 2 * d
  <2>1. q \in Nat
    BY <1>2
  <2> HIDE DEF q
  <2> QED
    BY <2>1
<1> HIDE DEF q
<1>4. lo <= q
  <2> SUFFICES ASSUME ~ (lo <= q) PROVE FALSE
    OBVIOUS
  <2>1. q + 1 <= lo
    BY <1>2
  <2>2. d * (q + 1) <= d * lo
    BY <1>2, <2>1, TimesGrows
  <2>3. d * lo \in Nat
    OBVIOUS
  <2> QED
    BY <1>2, <1>3, <2>2, <2>3
<1>5. q <= hi
  <2> SUFFICES ASSUME ~ (q <= hi) PROVE FALSE
    OBVIOUS
  <2>1. hi + 1 <= q
    BY <1>2
  <2>2. d * (hi + 1) <= d * q
    BY <1>2, <2>1, TimesGrows
  <2>3. d * (hi + 1) = d * hi + d /\ d * hi \in Nat
    OBVIOUS
  <2> QED
    BY <1>2, <1>3, <2>2, <2>3
<1>6. Rounded(n, d) = q
  BY DEF Rounded, q
<1> QED
  BY <1>4, <1>5, <1>6

LEMMA WeightedBetween ==
    ASSUME NEW seen \in Nat, NEW n \in Nat, n > 0, NEW a \in Nat, NEW b \in Nat,
           NEW lo \in Nat, NEW hi \in Nat, lo <= a, a <= hi, lo <= b, b <= hi
    PROVE  /\ lo <= Rounded(seen * a + n * b, seen + n)
           /\ Rounded(seen * a + n * b, seen + n) <= hi
<1>1. /\ seen * lo <= seen * a /\ seen * a <= seen * hi
      /\ n * lo <= n * b /\ n * b <= n * hi
  BY TimesGrows
<1>2. /\ seen * lo \in Nat /\ seen * hi \in Nat /\ n * lo \in Nat /\ n * hi \in Nat
      /\ seen * a \in Nat /\ n * b \in Nat
  OBVIOUS
<1>3. /\ (seen + n) * lo = seen * lo + n * lo
      /\ (seen + n) * hi = seen * hi + n * hi
  OBVIOUS
<1> DEFINE total == seen * a + n * b
           d == seen + n
<1>4. total \in Nat /\ d \in Nat /\ d > 0 /\ d * lo <= total /\ total <= d * hi
  BY <1>1, <1>2, <1>3
<1> HIDE DEF total, d
<1>5. lo <= Rounded(total, d) /\ Rounded(total, d) <= hi
  BY <1>4, RoundedBetween
<1> QED
  BY <1>5 DEF total, d

LEMMA WeightedCostWithin ==
    ASSUME NEW seen \in Nat, NEW seenCost \in Nat, Within(seenCost),
           NEW n \in Nat, n > 0, NEW price \in Prices
    PROVE  Within(WeightedCost(seen, seenCost, n, price))
<1>1. Prices \subseteq Nat
  BY StockroomAssumption
<1> DEFINE a == IF seenCost = NoPrice THEN price ELSE seenCost
<1>2. a \in Nat /\ \E lo, hi \in Prices : lo <= a /\ a <= hi
  BY <1>1 DEF Within
<1> HIDE DEF a
<1>3. PICK low \in Prices, high \in Prices : low <= a /\ a <= high
  BY <1>2
<1>4. PICK lo \in Prices : lo <= low /\ lo <= price
  BY <1>1
<1>5. PICK hi \in Prices : high <= hi /\ price <= hi
  BY <1>1
<1>6. /\ price \in Nat /\ low \in Nat /\ high \in Nat /\ lo \in Nat /\ hi \in Nat
      /\ lo <= a /\ a <= hi
  BY <1>1, <1>2, <1>3, <1>4, <1>5
<1>7. /\ lo <= Rounded(seen * a + n * price, seen + n)
      /\ Rounded(seen * a + n * price, seen + n) <= hi
  BY <1>2, <1>4, <1>5, <1>6, WeightedBetween
<1>8. WeightedCost(seen, seenCost, n, price) = Rounded(seen * a + n * price, seen + n)
  BY DEF WeightedCost, a
<1> QED
  BY <1>7, <1>8 DEF Within

(* What is left to show of a step: each price it writes, and each price a  *)
(* purchase reads, is within the prices.                                   *)
LEMMA PricesKept ==
    ASSUME Priced,
           \A p \in Parts : row'[p].cost = row[p].cost \/ Within(row'[p].cost),
           \A c \in Clients : \/ req'[c] = req[c]
                              \/ req'[c].op = "purchase" => Within(req'[c].seenCost)
    PROVE  Priced'
BY DEF Priced, Within

LEMMA GivenWithin ==
    ASSUME NEW x \in Prices \cup {NoPrice}
    PROVE  Within(x)
<1>1. x \in Prices => x <= x
  BY StockroomAssumption
<1> QED
  BY <1>1 DEF Within

(* A price is written only if one is given.                                *)
LEMMA WrittenWithin ==
    ASSUME Priced, NEW p \in Parts, NEW x \in Prices \cup {NoPrice},
           row'[p].cost = IF x = NoPrice THEN row[p].cost ELSE x,
           \A r \in Parts : r # p => row'[r] = row[r]
    PROVE  \A r \in Parts : row'[r].cost = row[r].cost \/ Within(row'[r].cost)
BY GivenWithin

LEMMA CreateRowPrices ==
    ASSUME TypeInv, Priced, NEW c \in Clients, CreateRow(c)
    PROVE  Priced'
<1>1. /\ req[c].part \in Parts
      /\ row'[req[c].part].cost = req[c].cost /\ req[c].cost \in Prices \cup {NoPrice}
      /\ \A r \in Parts : r # req[c].part => row'[r] = row[r]
      /\ req'[c].op # "purchase"
      /\ \A d \in Clients : d # c => req'[d] = req[d]
  BY CreateRowActs DEF Idle
<1>2. \A r \in Parts : row'[r].cost = row[r].cost \/ Within(row'[r].cost)
  BY <1>1, GivenWithin
<1> QED
  BY <1>1, <1>2, PricesKept

LEMMA CorrectionPrices ==
    ASSUME TypeInv, Priced, NEW c \in Clients, CommitCorrection(c) \/ CommitDetails(c)
    PROVE  Priced'
<1> DEFINE p == req[c].part
<1>1. /\ p \in Parts /\ req[c].cost \in Prices \cup {NoPrice}
      /\ \/ row'[p].cost = IF req[c].cost = NoPrice THEN row[p].cost ELSE req[c].cost
         \/ row'[p] = row[p]
      /\ \A r \in Parts : r # p => row'[r] = row[r]
      /\ req'[c].op # "purchase"
      /\ \A d \in Clients : d # c => req'[d] = req[d]
  <2>1. CASE CommitCorrection(c)
    BY <2>1, CommitCorrectionActs DEF Idle
  <2>2. CASE CommitDetails(c)
    BY <2>2, CommitDetailsActs DEF Idle
  <2> QED
    BY <2>1, <2>2
<1> HIDE DEF p
<1>2. \A r \in Parts : row'[r].cost = row[r].cost \/ Within(row'[r].cost)
  BY <1>1, WrittenWithin
<1> QED
  BY <1>1, <1>2, PricesKept

LEMMA BeginPurchasePrices ==
    ASSUME TypeInv, Priced, NEW c \in Clients, BeginPurchase(c)
    PROVE  Priced'
<1>1. /\ UNCHANGED row
      /\ \E p \in Parts : req'[c].seenCost = row[p].cost
      /\ \A d \in Clients : d # c => req'[d] = req[d]
  BY BeginPurchaseActs DEF tables
<1>2. Within(req'[c].seenCost)
  BY <1>1 DEF Priced
<1> QED
  BY <1>1, <1>2, PricesKept

LEMMA CommitPurchasePrices ==
    ASSUME TypeInv, Priced, NEW c \in Clients, CommitPurchase(c)
    PROVE  Priced'
<1> DEFINE q == req[c]
<1>1. /\ q.op = "purchase" /\ q.part \in Parts
      /\ q.qty \in Nat \ {0} /\ q.seen \in Nat /\ q.seenCost \in Nat
      /\ q.price \in Prices \cup {NoPrice}
      /\ row'[q.part].cost =
           IF q.price = NoPrice THEN row[q.part].cost
           ELSE WeightedCost(q.seen, q.seenCost, q.qty, q.price)
      /\ \A r \in Parts : r # q.part => row'[r] = row[r]
      /\ req'[c].op # "purchase"
      /\ \A d \in Clients : d # c => req'[d] = req[d]
  BY CommitPurchaseActs DEF Idle
<1>2. Within(q.seenCost)
  BY <1>1 DEF Priced
<1> HIDE DEF q
<1>3. q.price # NoPrice => Within(WeightedCost(q.seen, q.seenCost, q.qty, q.price))
  <2> SUFFICES ASSUME q.price # NoPrice
               PROVE  Within(WeightedCost(q.seen, q.seenCost, q.qty, q.price))
    OBVIOUS
  <2>1. q.price \in Prices /\ q.qty \in Nat /\ q.qty > 0
    BY <1>1
  <2> QED
    BY <1>1, <1>2, <2>1, WeightedCostWithin
<1>4. \A r \in Parts : row'[r].cost = row[r].cost \/ Within(row'[r].cost)
  BY <1>1, <1>3
<1> QED
  BY <1>1, <1>4, PricesKept

LEMMA RequestStepPrices ==
    ASSUME TypeInv, Priced, NEW c \in Clients, RequestStep(c)
    PROVE  Priced'
<1>1. CASE BeginCreate(c) \/ BeginEdit(c) \/ BeginAdjust(c) \/ BeginOrder(c) \/ BeginClaim(c)
  BY <1>1, PricesKept, BeginCreateActs, BeginEditActs, BeginAdjustActs, BeginOrderActs,
     BeginClaimActs DEF tables
<1>2. CASE CreateRow(c)
  BY <1>2, CreateRowPrices
<1>3. CASE RecordOpening(c) \/ AcceptOrder(c) \/ Abandon(c)
  BY <1>3, PricesKept, RecordOpeningActs, AcceptOrderActs, AbandonActs DEF tables, Idle
<1>4. CASE CommitCorrection(c) \/ CommitDetails(c)
  BY <1>4, CorrectionPrices
<1>5. CASE BeginPurchase(c) \/ CommitPurchase(c)
  BY <1>5, BeginPurchasePrices, CommitPurchasePrices
<1>6. CASE CommitAdjust(c) \/ CommitClaim(c)
  BY <1>6, PricesKept, CommitAdjustActs, CommitClaimActs DEF Idle
<1>7. CASE CreateOrder(c) \/ DeductItem(c)
  BY <1>7, PricesKept, CreateOrderActs, DeductItemActs
<1> QED
  BY <1>1, <1>2, <1>3, <1>4, <1>5, <1>6, <1>7 DEF RequestStep

LEMMA NextPrices == TypeInv /\ Priced /\ [Next]_vars => Priced'
<1> SUFFICES ASSUME TypeInv, Priced, [Next]_vars PROVE Priced'
  OBVIOUS
<1>1. ASSUME NEW c \in Clients, RequestStep(c) PROVE Priced'
  BY <1>1, RequestStepPrices
<1>2. CASE BulkStockIn
  <2>1. \A r \in Parts : row'[r].cost = row[r].cost \/ Within(row'[r].cost)
    BY <1>2, BulkStockInActs, GivenWithin
  <2> QED
    BY <1>2, <2>1, BulkStockInActs, PricesKept
<1>3. ASSUME NEW o \in 1..Len(orders), OrderStep(o) PROVE Priced'
  BY <1>3, OrderStepCases, CancelOrderActs, PricesKept
<1>4. ASSUME NEW p \in Parts, NEW n \in ClaimQtys, OpenClaim(p, n) PROVE Priced'
  BY <1>4, OpenClaimActs, PricesKept
<1>5. ASSUME NEW p \in Parts, Sell(p) PROVE Priced'
  BY <1>5, SellActs, PricesKept
<1>6. CASE UNCHANGED vars
  BY <1>6, PricesKept DEF vars, tables
<1> QED
  BY <1>1, <1>2, <1>3, <1>4, <1>5, <1>6, NextCases

(* The cost price of a row lies between prices that were given, however    *)
(* stale the stock and the price are that a purchase averages with, and    *)
(* whatever its rounding (inventory.js 479-489).                           *)
THEOREM PricesHold == Spec => []CostWithinPrices
<1>1. Init => Priced
  <2> SUFFICES ASSUME Init PROVE Priced
    OBVIOUS
  <2>1. \A p \in Parts : row[p].cost = NoPrice
    BY DEF Init, NoRow, NoPrice
  <2>2. \A c \in Clients : req[c].op # "purchase"
    BY DEF Init, Idle
  <2> QED
    BY <2>1, <2>2 DEF Priced, Within
<1>2. Spec => [](TypeInv /\ Priced)
  BY <1>1, InitTypes, NextTypes, NextPrices, PTL DEF Spec
<1>3. Priced => CostWithinPrices
  BY DEF Priced, Within, CostWithinPrices
<1> QED
  BY <1>2, <1>3, PTL

-----------------------------------------------------------------------------
(* Stock and movements.                                                    *)
Opening(c, p) == req[c].op = "opening" /\ req[c].part = p

(* What the movements of a part do not explain.                            *)
Drift(p) == row[p].qty + HeldByOrders(p) - moved[p]

(* The movements miss at most the opening stock of a row whose request has *)
(* not recorded it yet; one request at most creates the row of a part.     *)
Explained ==
    /\ \A c, d \in Clients : \A p \in Parts : Opening(c, p) /\ Opening(d, p) => c = d
    /\ \A p \in Parts \ disturbed :
          \/ \E c \in Clients : Opening(c, p) /\ Drift(p) = req[c].qty
          \/ (\A c \in Clients : ~Opening(c, p)) /\ Drift(p) = 0

(* What orders hold.                                                       *)
LEMMA HeldType ==
    ASSUME TypeInv, NEW p \in Parts
    PROVE  /\ [o \in 1..Len(orders) |-> Held(orders[o], p)] \in [1..Len(orders) -> Int]
           /\ HeldByOrders(p) \in Int
<1> DEFINE fun == [o \in 1..Len(orders) |-> Held(orders[o], p)]
<1>1. \A o \in 1..Len(orders) : Held(orders[o], p) \in Int
  BY Tables, OrderShapes
<1>2. fun \in [1..Len(orders) -> Int]
  BY <1>1
<1>3. Len(orders) \in Nat
  BY Tables
<1>4. IsFiniteSet(1..Len(orders))
  BY <1>3, FS_Interval
<1> HIDE DEF fun
<1>5. SumFunction(fun) \in Int
  <2> DEFINE S == 1..Len(orders)
  <2> HIDE DEF S
  <2>1. fun \in [S -> Int] /\ IsFiniteSet(S)
    BY <1>2, <1>4 DEF S
  <2> QED
    BY <2>1, SumOfInts
<1> QED
  BY <1>2, <1>5 DEF HeldByOrders, fun

LEMMA HeldOfOne ==
    ASSUME TypeInv, TypeInv', NEW p \in Parts, NEW o \in 1..Len(orders),
           Len(orders') = Len(orders),
           \A k \in 1..Len(orders) : k # o => orders'[k] = orders[k]
    PROVE  /\ HeldByOrders(p)' =
                HeldByOrders(p) - Held(orders[o], p) + Held(orders'[o], p)
           /\ Held(orders[o], p) \in Int /\ Held(orders'[o], p) \in Int
<1> DEFINE n == Len(orders)
           fun == [k \in 1..n |-> Held(orders[k], p)]
           other == [k \in 1..n |-> Held(orders'[k], p)]
<1>1. n \in Nat
  BY Tables
<1>2. \A k \in 1..n : Held(orders[k], p) \in Int /\ Held(orders'[k], p) \in Int
  <2>1. \A k \in 1..n : orders[k] \in Order
    BY Tables
  <2>2. \A k \in 1..n : orders'[k] \in Order
    <3>1. orders' \in Seq(Order)
      BY DEF TypeInv, TypeOK
    <3> QED
      BY <3>1
  <2> QED
    BY <2>1, <2>2, OrderShapes
<1>3. fun \in [1..n -> Int] /\ other \in [1..n -> Int]
  BY <1>2
<1>4. \A k \in 1..n : k # o => other[k] = fun[k]
  OBVIOUS
<1>5. fun[o] = Held(orders[o], p) /\ other[o] = Held(orders'[o], p)
  OBVIOUS
<1>6. HeldByOrders(p) = SumFunction(fun) /\ HeldByOrders(p)' = SumFunction(other)
  BY DEF HeldByOrders, Held
<1>7. o \in 1..n
  OBVIOUS
<1> HIDE DEF n, fun, other
<1>8. SumFunction(other) = SumFunction(fun) - fun[o] + other[o]
  BY <1>1, <1>3, <1>4, <1>7, SumRowUpdated
<1> QED
  BY <1>2, <1>5, <1>6, <1>7, <1>8 DEF n

LEMMA HeldOfNone ==
    ASSUME TypeInv, TypeInv', NEW p \in Parts,
           Len(orders') = Len(orders) + 1,
           orders'[Len(orders) + 1].taken = {},
           orders'[Len(orders) + 1].restored = 0,
           \A k \in 1..Len(orders) : orders'[k] = orders[k]
    PROVE  HeldByOrders(p)' = HeldByOrders(p)
<1> DEFINE n == Len(orders)
           fun == [k \in 1..n |-> Held(orders[k], p)]
           other == [k \in 1..(n + 1) |-> Held(orders'[k], p)]
<1>1. n \in Nat
  BY Tables
<1>2. orders'[n + 1] \in Order
  <2>1. orders' \in Seq(Order)
    BY DEF TypeInv, TypeOK
  <2> QED
    BY <1>1, <2>1
<1>3. Held(orders'[n + 1], p) = 0
  <2>1. orders'[n + 1].items[p] \in Nat
    BY <1>2, OrderShapes
  <2> QED
    BY <2>1 DEF Held
<1>4. fun \in [1..n -> Int]
  BY HeldType
<1>5. other \in [1..(n + 1) -> Int]
  <2>1. \A k \in 1..n : Held(orders'[k], p) \in Int
    BY Tables, OrderShapes
  <2>2. \A k \in 1..(n + 1) : k \in 1..n \/ k = n + 1
    BY <1>1
  <2> QED
    BY <1>3, <2>1, <2>2
<1>6. \A k \in 1..n : other[k] = fun[k]
  BY <1>1
<1>7. other[n + 1] = 0
  BY <1>1, <1>3
<1>8. HeldByOrders(p) = SumFunction(fun) /\ HeldByOrders(p)' = SumFunction(other)
  BY DEF HeldByOrders, Held
<1>9. HeldByOrders(p) \in Int
  BY HeldType
<1> HIDE DEF n, fun, other
<1>10. SumFunction(other) = SumFunction(fun) + other[n + 1]
  BY <1>1, <1>4, <1>5, <1>6, SumRowAppended
<1> QED
  BY <1>7, <1>8, <1>9, <1>10

LEMMA HeldOfSame ==
    ASSUME NEW p \in Parts, Len(orders') = Len(orders),
           \A k \in 1..Len(orders) :
                /\ orders'[k].items = orders[k].items /\ orders'[k].taken = orders[k].taken
                /\ orders'[k].restored = orders[k].restored
    PROVE  HeldByOrders(p)' = HeldByOrders(p)
<1>1. \A k \in 1..Len(orders) : Held(orders'[k], p) = Held(orders[k], p)
  BY DEF Held
<1>2. [k \in 1..Len(orders') |-> Held(orders'[k], p)] = [k \in 1..Len(orders) |-> Held(orders[k], p)]
  BY <1>1
<1> QED
  BY <1>2 DEF HeldByOrders, Held

(* What is left to show of a step that starts and ends no creation: it     *)
(* moves the stock, what orders hold and the movements alike.              *)
LEMMA NothingDrifts ==
    ASSUME Explained, disturbed \subseteq disturbed',
           \A p \in Parts \ disturbed' : Drift(p)' = Drift(p),
           \A c \in Clients :
              req'[c] = req[c] \/ (req[c].op # "opening" /\ req'[c].op # "opening")
    PROVE  Explained'
<1>1. \A c \in Clients, p \in Parts : Opening(c, p)' <=> Opening(c, p)
  BY DEF Opening
<1>2. \A c \in Clients, p \in Parts : Opening(c, p) => req'[c] = req[c]
  BY DEF Opening
<1>3. \A c, d \in Clients : \A p \in Parts : Opening(c, p)' /\ Opening(d, p)' => c = d
  BY <1>1 DEF Explained
<1>4. ASSUME NEW p \in Parts \ disturbed'
      PROVE  \/ \E c \in Clients : Opening(c, p)' /\ Drift(p)' = req'[c].qty
             \/ (\A c \in Clients : ~Opening(c, p)') /\ Drift(p)' = 0
  <2>1. Drift(p)' = Drift(p) /\ p \in Parts \ disturbed
    OBVIOUS
  <2>2. \/ \E c \in Clients : Opening(c, p) /\ Drift(p) = req[c].qty
        \/ (\A c \in Clients : ~Opening(c, p)) /\ Drift(p) = 0
    BY <2>1 DEF Explained
  <2> HIDE DEF Drift
  <2>3. CASE \E c \in Clients : Opening(c, p) /\ Drift(p) = req[c].qty
    BY <1>1, <1>2, <2>1, <2>3
  <2>4. CASE (\A c \in Clients : ~Opening(c, p)) /\ Drift(p) = 0
    BY <1>1, <2>1, <2>4
  <2> QED
    BY <2>2, <2>3, <2>4
<1> QED
  BY <1>3, <1>4 DEF Explained

(* Stock and movements move alike.                                         *)
LEMMA DriftOfRow ==
    ASSUME TypeInv, TypeInv', NEW p \in Parts, HeldByOrders(p)' = HeldByOrders(p),
           row'[p].qty - row[p].qty = moved'[p] - moved[p]
    PROVE  Drift(p)' = Drift(p)
<1>1. /\ row[p].qty \in Int /\ moved[p] \in Int /\ HeldByOrders(p) \in Int
  BY RowShapes, Tables, HeldType
<1>2. row'[p].qty \in Int /\ moved'[p] \in Int
  <2>1. row'[p] \in Row \cup {NoRow}
    BY DEF TypeInv, TypeOK
  <2>2. row'[p].qty \in Int
    BY <2>1 DEF Row, NoRow
  <2>3. moved'[p] \in Int
    BY DEF TypeInv, TypeOK
  <2> QED
    BY <2>2, <2>3
<1> DEFINE a == row[p].qty
           b == row'[p].qty
           h == HeldByOrders(p)
           k == HeldByOrders(p)'
<1>3. Drift(p) = a + h - moved[p] /\ Drift(p)' = b + k - moved'[p]
  BY DEF Drift
<1>4. a \in Int /\ b \in Int /\ h \in Int /\ k = h /\ b - a = moved'[p] - moved[p]
  BY <1>1, <1>2
<1> HIDE DEF a, b, h, k
<1> QED
  BY <1>1, <1>2, <1>3, <1>4

(* A step that leaves the orders alone and moves stock and movements alike.*)
LEMMA AlikeExplains ==
    ASSUME TypeInv, TypeInv', Explained, disturbed \subseteq disturbed',
           \A p \in Parts : HeldByOrders(p)' = HeldByOrders(p),
           \A p \in Parts \ disturbed' : row'[p].qty - row[p].qty = moved'[p] - moved[p],
           \A c \in Clients :
              req'[c] = req[c] \/ (req[c].op # "opening" /\ req'[c].op # "opening")
    PROVE  Explained'
<1>1. \A p \in Parts \ disturbed' : Drift(p)' = Drift(p)
  BY DriftOfRow
<1> QED
  BY <1>1, NothingDrifts

LEMMA HeldAlone ==
    ASSUME UNCHANGED orders
    PROVE  \A p \in Parts : HeldByOrders(p)' = HeldByOrders(p)
BY HeldOfSame

(* The same quantities leave the same difference: none.                    *)
LEMMA SameQuantities ==
    ASSUME TypeInv, NEW p \in Parts, row'[p].qty = row[p].qty, moved'[p] = moved[p]
    PROVE  row'[p].qty - row[p].qty = moved'[p] - moved[p]
BY RowShapes, Tables

LEMMA BeginExplains ==
    ASSUME TypeInv, Explained, NEW c \in Clients,
           BeginCreate(c) \/ BeginEdit(c) \/ BeginPurchase(c) \/ BeginAdjust(c)
             \/ BeginOrder(c) \/ AcceptOrder(c) \/ BeginClaim(c)
    PROVE  Explained'
<1>1. /\ TypeInv' /\ UNCHANGED tables
      /\ req[c].op # "opening" /\ req'[c].op # "opening"
      /\ \A d \in Clients : d # c => req'[d] = req[d]
  BY BeginCreateActs, BeginEditActs, BeginPurchaseActs, BeginAdjustActs, BeginOrderActs,
     AcceptOrderActs, BeginClaimActs DEF Idle
<1>2. UNCHANGED <<row, moved, orders, disturbed>>
  BY <1>1 DEF tables
<1>3. \A p \in Parts : row'[p].qty - row[p].qty = moved'[p] - moved[p]
  BY <1>2, SameQuantities
<1>4. \A p \in Parts : HeldByOrders(p)' = HeldByOrders(p)
  BY <1>2, HeldAlone
<1>5. \A d \in Clients :
         req'[d] = req[d] \/ (req[d].op # "opening" /\ req'[d].op # "opening")
  BY <1>1
<1>6. disturbed \subseteq disturbed'
  BY <1>2
<1> QED
  BY <1>1, <1>3, <1>4, <1>5, <1>6, AlikeExplains

LEMMA CreateRowExplains ==
    ASSUME TypeInv, Explained, NEW c \in Clients, CreateRow(c)
    PROVE  Explained'
<1>1. PICK p \in Parts, n \in Nat : p = req[c].part /\ n = req[c].qty
  BY CreateRowActs
<1>2. /\ TypeInv' /\ UNCHANGED <<moved, orders, claims, disturbed>>
      /\ req[c].op = "create"
      /\ ~Exists(p)
      /\ row'[p].qty = n
      /\ \A r \in Parts : r # p => row'[r] = row[r]
      /\ IF n > 0 THEN req'[c].op = "opening" /\ req'[c].part = p /\ req'[c].qty = n
         ELSE req'[c] = Idle
      /\ \A d \in Clients : d # c => req'[d] = req[d]
  BY <1>1, CreateRowActs
<1>3. \A d \in Clients : ~Opening(d, p)
  BY <1>2, Tables DEF Opening, StillThere
<1>4. row[p].qty = 0
  BY <1>2, RowShapes DEF NoRow
<1>5. \A r \in Parts : HeldByOrders(r)' = HeldByOrders(r) /\ HeldByOrders(r) \in Int
  BY <1>2, HeldAlone, HeldType
<1>6. \A d \in Clients, r \in Parts :
        Opening(d, r)' <=> IF d = c THEN r = p /\ n > 0 ELSE Opening(d, r)
  BY <1>2 DEF Opening, Idle
<1>7. \A r \in Parts : r # p => Drift(r)' = Drift(r)
  BY <1>2, <1>5 DEF Drift
<1>8. Drift(p) = 0 => Drift(p)' = n
  <2>1. moved[p] \in Int /\ HeldByOrders(p) \in Int /\ moved'[p] = moved[p]
    BY <1>2, <1>5, Tables
  <2>2. Drift(p) = HeldByOrders(p) - moved[p] /\ Drift(p)' = n + HeldByOrders(p) - moved[p]
    BY <1>2, <1>4, <1>5, <2>1 DEF Drift
  <2> QED
    BY <1>2, <2>1, <2>2
<1>9. \A d, e \in Clients : \A r \in Parts : Opening(d, r)' /\ Opening(e, r)' => d = e
  <2>1. \A d \in Clients, r \in Parts : d = c => ~Opening(d, r)
    BY <1>2 DEF Opening
  <2> QED
    BY <1>3, <1>6, <2>1 DEF Explained
<1>10. ASSUME NEW r \in Parts \ disturbed'
      PROVE  \/ \E d \in Clients : Opening(d, r)' /\ Drift(r)' = req'[d].qty
             \/ (\A d \in Clients : ~Opening(d, r)') /\ Drift(r)' = 0
  <2>1. \/ \E d \in Clients : Opening(d, r) /\ Drift(r) = req[d].qty
        \/ (\A d \in Clients : ~Opening(d, r)) /\ Drift(r) = 0
    BY <1>2 DEF Explained
  <2>2. CASE r = p
    <3>1. Drift(p)' = n
      BY <1>3, <1>8, <2>1, <2>2
    <3>2. CASE n > 0
      BY <1>2, <1>6, <2>2, <3>1, <3>2
    <3>3. CASE ~ (n > 0)
      <4>1. n = 0
        BY <1>2, <3>3
      <4>2. \A d \in Clients : ~Opening(d, p)'
        BY <1>2, <1>3, <1>6, <3>3
      <4> QED
        BY <2>2, <3>1, <4>1, <4>2
    <3> QED
      BY <3>2, <3>3
  <2>3. CASE r # p
    <3>1. \A d \in Clients : Opening(d, r)' <=> Opening(d, r)
      BY <1>2, <1>6, <2>3 DEF Opening
    <3>2. \A d \in Clients : Opening(d, r) => req'[d] = req[d]
      BY <1>2 DEF Opening
    <3>3. Drift(r)' = Drift(r)
      BY <1>7, <2>3
    <3> QED
      BY <2>1, <3>1, <3>2, <3>3
  <2> QED
    BY <2>2, <2>3
<1> QED
  BY <1>9, <1>10 DEF Explained

LEMMA RecordOpeningExplains ==
    ASSUME TypeInv, Explained, NEW c \in Clients, RecordOpening(c)
    PROVE  Explained'
<1>1. PICK p \in Parts, n \in Nat : p = req[c].part /\ n = req[c].qty
  BY RecordOpeningActs
<1>2. /\ TypeInv' /\ UNCHANGED <<row, orders, claims, disturbed>>
      /\ req[c].op = "opening"
      /\ moved'[p] = moved[p] + n
      /\ \A r \in Parts : r # p => moved'[r] = moved[r]
      /\ req'[c] = Idle
      /\ \A d \in Clients : d # c => req'[d] = req[d]
  BY <1>1, RecordOpeningActs
<1>3. \A r \in Parts : HeldByOrders(r)' = HeldByOrders(r) /\ HeldByOrders(r) \in Int
  BY <1>2, HeldAlone, HeldType
<1>4. Opening(c, p) /\ \A d \in Clients : Opening(d, p) => d = c
  BY <1>1, <1>2 DEF Opening, Explained
<1>5. \A d \in Clients, r \in Parts : Opening(d, r)' <=> d # c /\ Opening(d, r)
  BY <1>2 DEF Opening, Idle
<1>6. \A r \in Parts : r # p => Drift(r)' = Drift(r)
  BY <1>2, <1>3 DEF Drift
<1>7. Drift(p) = n => Drift(p)' = 0
  <2>1. moved[p] \in Int /\ HeldByOrders(p) \in Int /\ row[p].qty \in Int
    BY <1>3, Tables, RowShapes
  <2>2. /\ Drift(p) = row[p].qty + HeldByOrders(p) - moved[p]
        /\ Drift(p)' = row[p].qty + HeldByOrders(p) - (moved[p] + n)
    BY <1>2, <1>3 DEF Drift
  <2> QED
    BY <2>1, <2>2
<1>8. \A d, e \in Clients : \A r \in Parts : Opening(d, r)' /\ Opening(e, r)' => d = e
  BY <1>5 DEF Explained
<1>9. ASSUME NEW r \in Parts \ disturbed'
      PROVE  \/ \E d \in Clients : Opening(d, r)' /\ Drift(r)' = req'[d].qty
             \/ (\A d \in Clients : ~Opening(d, r)') /\ Drift(r)' = 0
  <2>1. \/ \E d \in Clients : Opening(d, r) /\ Drift(r) = req[d].qty
        \/ (\A d \in Clients : ~Opening(d, r)) /\ Drift(r) = 0
    BY <1>2 DEF Explained
  <2>2. CASE r = p
    <3>1. Drift(p) = n
      BY <1>1, <1>4, <2>1, <2>2
    <3>2. \A d \in Clients : ~Opening(d, p)'
      BY <1>4, <1>5
    <3> QED
      BY <1>7, <2>2, <3>1, <3>2
  <2>3. CASE r # p
    <3>1. \A d \in Clients : Opening(d, r) => d # c
      BY <1>1, <2>3 DEF Opening
    <3>2. \A d \in Clients : Opening(d, r)' <=> Opening(d, r)
      BY <1>5, <3>1
    <3>3. \A d \in Clients : Opening(d, r) => req'[d] = req[d]
      BY <1>2, <3>1
    <3>4. Drift(r)' = Drift(r)
      BY <1>6, <2>3
    <3> QED
      BY <2>1, <3>2, <3>3, <3>4
  <2> QED
    BY <2>2, <2>3
<1> QED
  BY <1>8, <1>9 DEF Explained

LEMMA AbandonExplains ==
    ASSUME TypeInv, Explained, NEW c \in Clients, Abandon(c)
    PROVE  Explained'
<1>1. /\ TypeInv' /\ UNCHANGED <<row, moved, orders, claims>>
      /\ disturbed' = IF req[c].op = "opening" THEN disturbed \cup {req[c].part} ELSE disturbed
      /\ req'[c] = Idle
      /\ \A d \in Clients : d # c => req'[d] = req[d]
  BY AbandonActs
<1>2. \A d \in Clients, r \in Parts : Opening(d, r)' <=> d # c /\ Opening(d, r)
  BY <1>1 DEF Opening, Idle
<1>3. \A r \in Parts : Drift(r)' = Drift(r)
  BY <1>1, HeldAlone DEF Drift
<1>4. \A d, e \in Clients : \A r \in Parts : Opening(d, r)' /\ Opening(e, r)' => d = e
  BY <1>2 DEF Explained
<1>5. ASSUME NEW r \in Parts \ disturbed'
      PROVE  \/ \E d \in Clients : Opening(d, r)' /\ Drift(r)' = req'[d].qty
             \/ (\A d \in Clients : ~Opening(d, r)') /\ Drift(r)' = 0
  <2>1. r \notin disturbed /\ ~Opening(c, r)
    BY <1>1 DEF Opening
  <2>2. \/ \E d \in Clients : Opening(d, r) /\ Drift(r) = req[d].qty
        \/ (\A d \in Clients : ~Opening(d, r)) /\ Drift(r) = 0
    BY <2>1 DEF Explained
  <2>3. \A d \in Clients : Opening(d, r)' <=> Opening(d, r)
    BY <1>2, <2>1
  <2>4. \A d \in Clients : Opening(d, r) => req'[d] = req[d]
    BY <1>1, <2>1
  <2>5. Drift(r)' = Drift(r)
    BY <1>3
  <2> QED
    BY <2>2, <2>3, <2>4, <2>5
<1> QED
  BY <1>4, <1>5 DEF Explained

LEMMA CorrectionExplains ==
    ASSUME TypeInv, Explained, NEW c \in Clients, CommitCorrection(c)
    PROVE  Explained'
<1>1. PICK p \in Parts, n \in Int, seen \in Int :
          p = req[c].part /\ n = req[c].qty /\ seen = req[c].seen
  BY CommitCorrectionActs, EditShapes
<1>2. /\ TypeInv' /\ UNCHANGED <<orders, claims>>
      /\ req[c].op = "edit" /\ req'[c] = Idle
      /\ moved'[p] = moved[p] + (n - seen)
      /\ \A r \in Parts : r # p => moved'[r] = moved[r] /\ row'[r] = row[r]
      /\ \/ row'[p].qty = n /\ row[p].qty = seen /\ disturbed' = disturbed
         \/ disturbed' = disturbed \cup {p}
      /\ \A d \in Clients : d # c => req'[d] = req[d]
  BY <1>1, CommitCorrectionActs
<1>3. ASSUME NEW r \in Parts \ disturbed'
      PROVE  row'[r].qty - row[r].qty = moved'[r] - moved[r]
  <2>1. CASE r = p
    <3>1. row'[p].qty = n /\ row[p].qty = seen
      BY <1>2, <2>1
    <3>2. moved[p] \in Int
      BY Tables
    <3> QED
      BY <1>2, <2>1, <3>1, <3>2
  <2>2. CASE r # p
    BY <1>2, <2>2, SameQuantities
  <2> QED
    BY <2>1, <2>2
<1>4. \A r \in Parts : HeldByOrders(r)' = HeldByOrders(r)
  BY <1>2, HeldAlone
<1>5. \A d \in Clients : req'[d] = req[d] \/ (req[d].op # "opening" /\ req'[d].op # "opening")
  BY <1>2 DEF Idle
<1>6. disturbed \subseteq disturbed'
  BY <1>2
<1> QED
  BY <1>2, <1>3, <1>4, <1>5, <1>6, AlikeExplains

LEMMA DetailsExplain ==
    ASSUME TypeInv, Explained, NEW c \in Clients, CommitDetails(c)
    PROVE  Explained'
<1>1. /\ TypeInv' /\ UNCHANGED <<moved, orders, claims, disturbed>>
      /\ req[c].op = "edit" /\ req'[c] = Idle
      /\ \A r \in Parts : row'[r].qty = row[r].qty
      /\ \A d \in Clients : d # c => req'[d] = req[d]
  BY CommitDetailsActs
<1>2. \A r \in Parts : row'[r].qty - row[r].qty = moved'[r] - moved[r]
  BY <1>1, SameQuantities
<1>3. \A r \in Parts : HeldByOrders(r)' = HeldByOrders(r)
  BY <1>1, HeldAlone
<1>4. \A d \in Clients : req'[d] = req[d] \/ (req[d].op # "opening" /\ req'[d].op # "opening")
  BY <1>1 DEF Idle
<1>5. disturbed \subseteq disturbed'
  BY <1>1
<1> QED
  BY <1>1, <1>2, <1>3, <1>4, <1>5, AlikeExplains

LEMMA PurchaseExplains ==
    ASSUME TypeInv, Explained, NEW c \in Clients, CommitPurchase(c)
    PROVE  Explained'
<1>1. PICK p \in Parts, n \in Nat : p = req[c].part /\ n = req[c].qty
  BY CommitPurchaseActs
<1>2. /\ TypeInv' /\ UNCHANGED <<orders, claims, disturbed>>
      /\ req[c].op = "purchase" /\ req'[c] = Idle
      /\ moved'[p] = moved[p] + n /\ row'[p].qty = row[p].qty + n
      /\ \A r \in Parts : r # p => moved'[r] = moved[r] /\ row'[r] = row[r]
      /\ \A d \in Clients : d # c => req'[d] = req[d]
  BY <1>1, CommitPurchaseActs
<1>3. ASSUME NEW r \in Parts
      PROVE  row'[r].qty - row[r].qty = moved'[r] - moved[r]
  <2>1. CASE r = p
    <3>1. row[p].qty \in Int /\ moved[p] \in Int
      BY RowShapes, Tables
    <3> QED
      BY <1>2, <2>1, <3>1
  <2>2. CASE r # p
    BY <1>2, <2>2, SameQuantities
  <2> QED
    BY <2>1, <2>2
<1>4. \A r \in Parts : HeldByOrders(r)' = HeldByOrders(r)
  BY <1>2, HeldAlone
<1>5. \A d \in Clients : req'[d] = req[d] \/ (req[d].op # "opening" /\ req'[d].op # "opening")
  BY <1>2 DEF Idle
<1>6. disturbed \subseteq disturbed'
  BY <1>2
<1> QED
  BY <1>2, <1>3, <1>4, <1>5, <1>6, AlikeExplains

LEMMA AdjustExplains ==
    ASSUME TypeInv, Explained, NEW c \in Clients, CommitAdjust(c)
    PROVE  Explained'
<1>1. PICK p \in Parts : p = req[c].part
  BY CommitAdjustActs
<1>2. /\ TypeInv' /\ UNCHANGED <<orders, claims>>
      /\ req[c].op = "adjust" /\ req'[c] = Idle
      /\ \/ /\ disturbed' = disturbed
            /\ row'[p].qty - row[p].qty = moved'[p] - moved[p]
         \/ disturbed' = disturbed \cup {p}
      /\ \A r \in Parts : r # p => row'[r] = row[r] /\ moved'[r] = moved[r]
      /\ \A d \in Clients : d # c => req'[d] = req[d]
  BY <1>1, CommitAdjustActs
<1>3. ASSUME NEW r \in Parts \ disturbed'
      PROVE  row'[r].qty - row[r].qty = moved'[r] - moved[r]
  <2>1. CASE r = p
    BY <1>2, <2>1
  <2>2. CASE r # p
    BY <1>2, <2>2, SameQuantities
  <2> QED
    BY <2>1, <2>2
<1>4. \A r \in Parts : HeldByOrders(r)' = HeldByOrders(r)
  BY <1>2, HeldAlone
<1>5. \A d \in Clients : req'[d] = req[d] \/ (req[d].op # "opening" /\ req'[d].op # "opening")
  BY <1>2 DEF Idle
<1>6. disturbed \subseteq disturbed'
  BY <1>2
<1> QED
  BY <1>2, <1>3, <1>4, <1>5, <1>6, AlikeExplains

LEMMA ClaimExplains ==
    ASSUME TypeInv, Explained, NEW c \in Clients, CommitClaim(c)
    PROVE  Explained'
<1>1. /\ TypeInv' /\ UNCHANGED <<orders, disturbed>>
      /\ req[c].op = "claim" /\ req'[c] = Idle
      /\ \A r \in Parts : row'[r].qty - row[r].qty = moved'[r] - moved[r]
      /\ \A d \in Clients : d # c => req'[d] = req[d]
  BY CommitClaimActs
<1>2. \A r \in Parts : HeldByOrders(r)' = HeldByOrders(r)
  BY <1>1, HeldAlone
<1>3. \A d \in Clients : req'[d] = req[d] \/ (req[d].op # "opening" /\ req'[d].op # "opening")
  BY <1>1 DEF Idle
<1>4. disturbed \subseteq disturbed'
  BY <1>1
<1> QED
  BY <1>1, <1>2, <1>3, <1>4, AlikeExplains

LEMMA CreateOrderExplains ==
    ASSUME TypeInv, Explained, NEW c \in Clients, CreateOrder(c)
    PROVE  Explained'
<1>1. /\ TypeInv' /\ UNCHANGED <<row, moved, claims, disturbed>>
      /\ Len(orders') = Len(orders) + 1
      /\ orders'[Len(orders) + 1].taken = {}
      /\ orders'[Len(orders) + 1].restored = 0
      /\ \A o \in 1..Len(orders) : orders'[o] = orders[o]
      /\ req'[c].op = "deduct" /\ req[c].op = "order"
      /\ \A d \in Clients : d # c => req'[d] = req[d]
  BY CreateOrderActs
<1>2. \A r \in Parts : HeldByOrders(r)' = HeldByOrders(r)
  BY <1>1, HeldOfNone
<1>3. \A r \in Parts : row'[r].qty - row[r].qty = moved'[r] - moved[r]
  BY <1>1, SameQuantities
<1>4. \A d \in Clients : req'[d] = req[d] \/ (req[d].op # "opening" /\ req'[d].op # "opening")
  BY <1>1
<1>5. disturbed \subseteq disturbed'
  BY <1>1
<1> QED
  BY <1>1, <1>2, <1>3, <1>4, <1>5, AlikeExplains

(* Multiplying one more, or one less.                                      *)
LEMMA OneMore ==
    ASSUME NEW n \in Nat, NEW k \in Int
    PROVE  n * (k + 1) = n * k + n /\ n * (k - 1) = n * k - n /\ n * k \in Int
OBVIOUS

LEMMA DeductItemExplains ==
    ASSUME TypeInv, Explained, NEW c \in Clients, DeductItem(c)
    PROVE  Explained'
<1>1. /\ TypeInv' /\ UNCHANGED <<moved, claims, disturbed, req>>
      /\ Len(orders') = Len(orders)
  BY DeductItemActs
<1>2. PICK o \in 1..Len(orders), p \in Parts :
        /\ row'[p].qty = row[p].qty - orders[o].items[p]
        /\ \A r \in Parts : r # p => row'[r] = row[r]
        /\ p \notin orders[o].taken
        /\ orders'[o].items = orders[o].items
        /\ orders'[o].taken = orders[o].taken \cup {p}
        /\ orders'[o].restored = orders[o].restored
        /\ \A k \in 1..Len(orders) : k # o => orders'[k] = orders[k]
  BY DeductItemActs
<1>3. ASSUME NEW r \in Parts
      PROVE  /\ HeldByOrders(r)' = HeldByOrders(r) - Held(orders[o], r) + Held(orders'[o], r)
             /\ Held(orders[o], r) \in Int /\ Held(orders'[o], r) \in Int
  BY <1>1, <1>2, HeldOfOne
<1>4. orders[o].items[p] \in Nat /\ orders[o].restored \in Nat
  BY Tables, OrderShapes
<1>5. Held(orders'[o], p) = Held(orders[o], p) + orders[o].items[p]
  <2> DEFINE n == orders[o].items[p]
             k == 0 - orders[o].restored
  <2>1. n \in Nat /\ k \in Int
    BY <1>4
  <2>2. Held(orders[o], p) = n * k
    BY <1>2 DEF Held
  <2>3. Held(orders'[o], p) = n * (k + 1)
    <3>1. 1 - orders[o].restored = k + 1
      BY <1>4
    <3>2. Held(orders'[o], p) = n * (1 - orders[o].restored)
      BY <1>2 DEF Held
    <3> QED
      BY <3>1, <3>2
  <2> HIDE DEF n, k
  <2>4. n * (k + 1) = n * k + n
    BY <2>1, OneMore
  <2> QED
    BY <2>2, <2>3, <2>4 DEF n
<1>6. \A r \in Parts : r # p => Held(orders'[o], r) = Held(orders[o], r)
  BY <1>2 DEF Held
<1>7. ASSUME NEW r \in Parts
      PROVE  Drift(r)' = Drift(r)
  <2>1. /\ row[r].qty \in Int /\ moved[r] \in Int /\ HeldByOrders(r) \in Int
        /\ moved'[r] = moved[r]
    BY <1>1, RowShapes, Tables, HeldType
  <2>2. CASE r = p
    <3>1. HeldByOrders(p)' = HeldByOrders(p) + orders[o].items[p]
      BY <1>3, <1>4, <1>5, <2>1, <2>2
    <3>2. /\ Drift(p)' = (row[p].qty - orders[o].items[p]) + HeldByOrders(p)' - moved[p]
          /\ Drift(p) = row[p].qty + HeldByOrders(p) - moved[p]
      BY <1>2, <2>1, <2>2 DEF Drift
    <3> QED
      BY <1>4, <2>1, <2>2, <3>1, <3>2
  <2>3. CASE r # p
    <3>1. HeldByOrders(r)' = HeldByOrders(r)
      BY <1>3, <1>6, <2>1, <2>3
    <3> QED
      BY <1>2, <2>1, <2>3, <3>1 DEF Drift
  <2> QED
    BY <2>2, <2>3
<1>8. disturbed \subseteq disturbed'
  BY <1>1
<1> QED
  BY <1>1, <1>7, <1>8, NothingDrifts

LEMMA CancelOrderExplains ==
    ASSUME TypeInv, Explained, NEW o \in 1..Len(orders), CancelOrder(o)
    PROVE  Explained'
<1>1. /\ TypeInv' /\ UNCHANGED <<moved, claims, disturbed, req>>
      /\ \A p \in Parts : row'[p].qty = row[p].qty + orders[o].items[p]
      /\ Len(orders') = Len(orders)
      /\ orders'[o].items = orders[o].items /\ orders'[o].taken = orders[o].taken
      /\ orders'[o].restored = orders[o].restored + 1
      /\ \A k \in 1..Len(orders) : k # o => orders'[k] = orders[k]
  BY CancelOrderActs
<1>2. ASSUME NEW r \in Parts
      PROVE  Drift(r)' = Drift(r)
  <2> DEFINE n == orders[o].items[r]
             t == IF r \in orders[o].taken THEN 1 ELSE 0
             k == t - orders[o].restored
  <2>1. n \in Nat /\ orders[o].restored \in Nat
    BY Tables, OrderShapes
  <2>2. /\ row[r].qty \in Int /\ moved[r] \in Int /\ HeldByOrders(r) \in Int
        /\ moved'[r] = moved[r] /\ row'[r].qty = row[r].qty + n
    BY <1>1, RowShapes, Tables, HeldType
  <2>3. /\ HeldByOrders(r)' = HeldByOrders(r) - Held(orders[o], r) + Held(orders'[o], r)
        /\ Held(orders[o], r) \in Int /\ Held(orders'[o], r) \in Int
    BY <1>1, HeldOfOne
  <2>4. t \in Int
    OBVIOUS
  <2>5. Held(orders[o], r) = n * k
    BY DEF Held
  <2>6. Held(orders'[o], r) = n * (t - (orders[o].restored + 1))
    BY <1>1 DEF Held
  <2> HIDE DEF n, t
  <2>7. k \in Int /\ t - (orders[o].restored + 1) = k - 1
    BY <2>1, <2>4
  <2> HIDE DEF k
  <2>8. Held(orders'[o], r) = Held(orders[o], r) - n
    BY <2>1, <2>5, <2>6, <2>7, OneMore
  <2>9. HeldByOrders(r)' = HeldByOrders(r) - n
    BY <2>1, <2>2, <2>3, <2>8
  <2>10. /\ Drift(r)' = (row[r].qty + n) + HeldByOrders(r)' - moved[r]
         /\ Drift(r) = row[r].qty + HeldByOrders(r) - moved[r]
    BY <2>2 DEF Drift
  <2> QED
    BY <2>1, <2>2, <2>9, <2>10
<1>3. disturbed \subseteq disturbed'
  BY <1>1
<1> QED
  BY <1>1, <1>2, <1>3, NothingDrifts

(* A step that leaves the requests and the orders' stock alone.            *)
LEMMA QuietExplains ==
    ASSUME TypeInv, TypeInv', Explained, UNCHANGED <<req, disturbed>>,
           \A p \in Parts : HeldByOrders(p)' = HeldByOrders(p),
           \A p \in Parts : row'[p].qty - row[p].qty = moved'[p] - moved[p]
    PROVE  Explained'
BY AlikeExplains

LEMMA RequestStepExplains ==
    ASSUME TypeInv, Explained, NEW c \in Clients, RequestStep(c)
    PROVE  Explained'
<1>1. CASE BeginCreate(c) \/ BeginEdit(c) \/ BeginPurchase(c) \/ BeginAdjust(c)
             \/ BeginOrder(c) \/ AcceptOrder(c) \/ BeginClaim(c)
  BY <1>1, BeginExplains
<1>2. CASE CreateRow(c) \/ RecordOpening(c) \/ Abandon(c)
  BY <1>2, CreateRowExplains, RecordOpeningExplains, AbandonExplains
<1>3. CASE CommitCorrection(c) \/ CommitDetails(c) \/ CommitPurchase(c) \/ CommitAdjust(c)
  BY <1>3, CorrectionExplains, DetailsExplain, PurchaseExplains, AdjustExplains
<1>4. CASE CreateOrder(c) \/ DeductItem(c) \/ CommitClaim(c)
  BY <1>4, CreateOrderExplains, DeductItemExplains, ClaimExplains
<1> QED
  BY <1>1, <1>2, <1>3, <1>4 DEF RequestStep

LEMMA OrderStepExplains ==
    ASSUME TypeInv, Explained, NEW o \in 1..Len(orders), OrderStep(o)
    PROVE  Explained'
<1>1. CASE CancelOrder(o)
  BY <1>1, CancelOrderExplains
<1>2. ASSUME NEW status \in Statuses,
             orders' = [orders EXCEPT ![o].status = status],
             UNCHANGED <<row, moved, claims, disturbed, req>>
      PROVE  Explained'
  <2>1. /\ TypeInv'
        /\ Len(orders') = Len(orders)
        /\ \A k \in 1..Len(orders) :
             /\ orders'[k].items = orders[k].items /\ orders'[k].taken = orders[k].taken
             /\ orders'[k].restored = orders[k].restored
    BY <1>2, StatusActs
  <2>2. \A p \in Parts : HeldByOrders(p)' = HeldByOrders(p)
    BY <2>1, HeldOfSame
  <2>3. \A p \in Parts : row'[p].qty - row[p].qty = moved'[p] - moved[p]
    BY <1>2, SameQuantities
  <2> QED
    BY <1>2, <2>1, <2>2, <2>3, QuietExplains
<1> QED
  BY <1>1, <1>2, OrderStepCases

LEMMA NextExplains == TypeInv /\ Explained /\ [Next]_vars => Explained'
<1> SUFFICES ASSUME TypeInv, Explained, [Next]_vars PROVE Explained'
  OBVIOUS
<1>1. ASSUME NEW c \in Clients, RequestStep(c) PROVE Explained'
  BY <1>1, RequestStepExplains
<1>2. CASE BulkStockIn
  BY <1>2, BulkStockInActs, HeldAlone, QuietExplains
<1>3. ASSUME NEW o \in 1..Len(orders), OrderStep(o) PROVE Explained'
  BY <1>3, OrderStepExplains
<1>4. ASSUME NEW p \in Parts, NEW n \in ClaimQtys, OpenClaim(p, n) PROVE Explained'
  <2>1. \A r \in Parts : row'[r].qty - row[r].qty = moved'[r] - moved[r]
    BY <1>4, OpenClaimActs, SameQuantities
  <2> QED
    BY <1>4, <2>1, OpenClaimActs, HeldAlone, QuietExplains
<1>5. ASSUME NEW p \in Parts, Sell(p) PROVE Explained'
  BY <1>5, SellActs, HeldAlone, QuietExplains
<1>6. CASE UNCHANGED vars
  <2>1. UNCHANGED <<row, moved, orders, claims, disturbed, req>>
    BY <1>6 DEF vars, tables
  <2>2. \A r \in Parts : row'[r].qty - row[r].qty = moved'[r] - moved[r]
    BY <2>1, SameQuantities
  <2> QED
    BY <1>6, <2>1, <2>2, StutterKeepsTypes, HeldAlone, QuietExplains
<1> QED
  BY <1>1, <1>2, <1>3, <1>4, <1>5, <1>6, NextCases

LEMMA InitExplains == Init => Explained
<1> SUFFICES ASSUME Init PROVE Explained
  OBVIOUS
<1>1. TypeInv
  BY InitTypes
<1>2. \A c \in Clients, p \in Parts : ~Opening(c, p)
  BY DEF Init, Idle, Opening
<1>3. ASSUME NEW p \in Parts
      PROVE  Drift(p) = 0
  <2> DEFINE fun == [o \in 1..Len(orders) |-> Held(orders[o], p)]
  <2>1. Len(orders) = 0
    BY DEF Init
  <2>2. fun \in [1..Len(orders) -> Int]
    BY <1>1, HeldType
  <2> HIDE DEF fun
  <2>3. fun \in [{} -> Int]
    BY <2>1, <2>2
  <2>4. \A f \in [{} -> Int] : SumFunction(f) = 0
    BY SumOfNone
  <2>5. SumFunction(fun) = 0
    BY <2>3, <2>4
  <2>6. HeldByOrders(p) = 0
    BY <2>5 DEF HeldByOrders, fun
  <2>7. row[p].qty = moved[p] /\ moved[p] \in Int
    BY StockroomAssumption DEF Init, NoRow
  <2> QED
    BY <2>6, <2>7 DEF Drift
<1> QED
  BY <1>2, <1>3 DEF Explained

(* The movements explain the stock of every part, up to what marketplace   *)
(* orders hold of it, unless the part is one whose stock and movements a   *)
(* request set apart in one of the three ways the code allows, or whose    *)
(* opening movement is about to be written (inventory.js, marketplace.js,  *)
(* warrantyClaims.js).                                                     *)
THEOREM MovementsExplainStock == Spec => []StockExplained
<1>1. Spec => [](TypeInv /\ Explained)
  BY InitTypes, NextTypes, InitExplains, NextExplains, PTL DEF Spec
<1>2. TypeInv /\ Explained => StockExplained
  <2> SUFFICES ASSUME TypeInv, Explained, NEW p \in Parts, p \notin disturbed,
                      \A c \in Clients : ~Opening(c, p)
               PROVE  row[p].qty + HeldByOrders(p) = moved[p]
    BY DEF StockExplained, Opening
  <2>1. Drift(p) = 0
    BY DEF Explained
  <2>2. row[p].qty \in Int /\ moved[p] \in Int /\ HeldByOrders(p) \in Int
    BY RowShapes, Tables, HeldType
  <2> QED
    BY <2>1, <2>2 DEF Drift
<1> QED
  BY <1>1, <1>2, PTL
=============================================================================
