# Red Piston backend: a verification development

The program is an Express/Prisma/PostgreSQL server for auto-parts shops: they
bill customers, take goods back, buy from suppliers, sell on a marketplace and
run workshops. Every HTTP request is a handler on Node's event loop; between
two `await`s of one handler any number of other handlers (and other processes)
run. What keeps the data right is PostgreSQL: transactions, row locks, guarded
`updateMany`, CHECK and UNIQUE constraints. The hard part of the program is
therefore what a handler reads before a transaction and relies on inside it.

Nearly every query is scoped by `shopId`, so most models are of one shop;
`People` has several, since an account moves between them.

## Inventory

| Component | State | Operations | What is hard | What makes it correct |
|---|---|---|---|---|
| Billing desk (`routes/billing.js`) | invoices and lines, payments, counters, stock, movements, ledger | create invoice, convert estimate, record payment | stock and credit notes checked before the transaction that spends them; failure of the n-th line; payments summed without a lock on the invoice | stock never negative, movements explain stock, numbers continuous, ledger = documents, PAID = paid |
| Sales returns (`salesReturns.js`, `creditNotes.js`) | returns, credit notes, stock, damaged stock, ledger | return against an invoice, walk-in return | races on one invoice line, serialization failure and the one retry, refund modes | not more returned than sold, a note is spent once |
| Exchanges (`exchanges.js`) | exchange orders | return, then invoice, then link | three transactions, a note that anybody may spend in between | links the legs that belong together, a note's balance is explained by sales |
| Numbering (`lib/sequence.js`) | `number_counters` | `nextSeq` | row lock held to the end of a transaction; deadlocks; calls outside a transaction | unique; series that are drawn only in transactions continuous; nobody waits for ever |
| Parties (`parties.js`) | parties, ledger | opening entry, ledger row, payment, supplier credit | balance and row written by several handlers at once | the ledger is a chain |
| Purchase orders | orders and items, stock | draft, edit, clone, approve, send, email, receive, cancel | status and items read long before they are written | never over-received |
| Purchase bills | bills, movements, stock | extract, import | one transaction per item, status at the end | what is imported brought goods |
| Purchase returns | returns, ledger | return, resolve | races, stale resolutions, repeated PATCH | not more returned than imported, credited once |
| Inventory (`inventory.js`, `stockBatches.js`) | stock, cost, version, movements | create, edit, purchase, bulk stock-in, adjust | deltas and averages of stale reads, signs of movement types | movements explain stock, cost within prices |
| Marketplace (`marketplace.js`) | orders, stock | place, status, payment, search | stock item by item, restored from an old status | stock and orders add up |
| Warranty claims | claims, stock | open, advance | the same step requested twice | one movement each way |
| Reconciliation worker | none | nightly comparison | weights of movement types | no false alarms |
| Job cards (`workshop.js`, `mechanic/jobs.js`, `workshop/*`) | jobs, items, bays, part requests | many | mechanic and owner at once; unconditional writes of what was checked earlier | inspection before delivery, parts accounted for |
| Sign-in (`auth/*`, `services/otp.js`) | account, refresh tokens, reset links, one-time codes | issue, verify, rotate, revoke | rotation against a wipe of all sessions, overlapping codes | only what a wipe overlaps outlives it, a code is spent |
| Staff and mechanics (`staff.js`, `mechanic/auth.js`, `mechanic/shop-admin.js`) | invitations, memberships | invite, accept, register, approve, reject, convert, (de)activate | approval and registration at once; DELETE and INSERT as two statements | active means approved |
| Catalogue, administration (`catalog.js`, `fitments.js`, `admin.js`) | parts, vehicles, fitments, staging table, picture migration | import, contribute, review, fit, migrate | two imports of one file; a loop in the background | answers are true, the loop ends |
| Cache, flags, limiters (`lib/cache.js`, ...) | Redis | getOrSet, invalidate | dead sockets, late commands, stale fills, a replica that lags | whoever asks under a deadline is answered, staleness ends |
| Queues, workers, process (`jobs/*`, `lib/cleanup.js`, `index.js`) | jobs, schedules | enqueue, work, retry, stall, clean up | crashes, starts without Redis | reports are true, mail ends, expired rows go |
| GST reports, shop and customer profiles, uploads, messages, PDFs, HTTP shell | rows written one at a time, or none | | little | |

`PROJECT.json` lists all of them with their files; its hazards list what in
this code a test would hardly reach, each at its line.

Interactions: all desks share `shop_inventory`, `movements`, `number_counters`
and the party ledger. Exchanges call the functions of returns and billing;
purchase orders, bills and returns meet in stock and in the movements; the
workshop's invoice takes its number from billing's series; accepting an
invitation signs in, and an administrator's verdict, a shop's set-up and a
mechanic's conversion write the same account; the cleanup job deletes the codes
that sign-in verifies; orders and dashboards go through the cache.

## Modules

**Store** (selling and taking back)

- `Shop`: the shared tables and the row-level writes (`nextSeq`,
  `writeLedgerEntry`, rollback).
- `Billing`: `createInvoice` as two steps. `SubmitInvoice` is everything
  before the transaction (pre-flight checks on what is read then),
  `CommitInvoice` the transaction with the guards it evaluates;
  `ConvertEstimate`.
- `SalesReturns`: `createSalesReturn` (`BeginReturn` takes the snapshot of
  the SERIALIZABLE transaction, `CommitReturn` requires it to be current,
  `RetryReturn` is the one retry of `runSerializable`) and `WalkInReturn`.
- `Store` composes them and states the invariants, those that sum over
  documents included (`LedgerMatchesDocuments`, `GoodsConserved`).
- `Exchanges`: POST `/exchanges` as the return, the sale and the link it is
  made of, with `DropExchange` at every point where it may stop. The handler
  calls the functions of the two desks, and so do its actions: that it refines
  `Store` follows from that, and is only a lemma that carries `Store`'s
  invariants over. Its own claims are `ExchangesLinkTheirLegs` and, of what
  it leaves behind when it stops, `NoteBalanceExplained`.

A request is a record in `req`; while it is there, other requests act. A
rollback, a timeout and a crash all leave the tables as they were.

**Receivables** (what customers owe): `POST /invoice/:id/payment` and the
writers of a party's ledger, statement by statement: the update of a party's
row locks it, a statement sees what was committed before it (READ COMMITTED),
and what a transaction wrote is in its request until it commits.

**Sequence** (numbering)

- `GaplessSeries`: the abstract specification: the n-th document of a series
  carries the number n.
- `Sequence`: transactions as programs of row locks, with the counter's
  upsert as one of them; commit, failure, stall and timeout, circular waits and
  PostgreSQL's detector, and numbers drawn with the global client.
  `TaxSeriesGapless` is `GaplessSeries!Spec` under the mapping of the
  documents of the tax series that no route draws outside a transaction
  (`KeptInside`): in this program credit notes and returns, and not the
  invoices, which the workshop numbers outside one.

`Store` takes `nextSeq` as atomic with its transaction; `Sequence` is the
reason it may.

**Procurement** (buying and sending back)

- `Purchases`: tables, incoming goods, ledger, a sale that competes for stock.
- `PurchaseOrders`, `PurchaseBills`, `PurchaseReturns`: one per route file.
  Each handler is `Begin...` (what it reads and checks) and `Commit...` or
  `Finish...` (what it writes), except where it has a single transaction. An
  import is one step per item, as in the code: it is brought in
  (`ImportItem`), fails before it is counted (`SkipItem`), or is counted in
  the callback of a transaction whose COMMIT then fails (`LoseItem`); a crash
  between two items is `Abandon`.
- `Procurement` composes them; the supplier's ledger is a sum over its rows.

**Stock** (the rows of the inventory)

- `Stockroom`: `shop_inventory` by part with its quantity, version and cost,
  the movements as their signed sum, and what a competing sale does to both.
- `InventoryDesk`: creation with its opening movement, the edit with and
  without a version of the client's, the purchase with its averaged cost, the
  bulk stock-in and the adjustment with the sign of its type.
- `Marketplace`: an order that takes its stock item by item after it was
  created, its status, payment and cancellation.
- `WarrantyClaims`: a claim, its versioned status and its two movements.
- `Stock` composes them. `disturbed` is a history variable: the parts of which
  a request has set stock and movements apart in one of the three ways that
  `StockExplained` names.

**Workshop** (job cards)

- `JobCards`: the two tables of transitions, and every handler that reads a
  card's status, compares it and updates the card by its id alone (`StartMove`
  and `CommitMove`).
- `JobLines`: lines with and without stock, of the mechanic and of the shop,
  and the requests for parts.
- `ServiceBays`: the bays and which job stands in them.
- `Workshop` composes them. `mislaid` and the `took` of a line are history:
  what the shop's handlers do to lines that a mechanic's handlers gave stock.

**People** (accounts)

- `Sessions`: one account, its refresh tokens and reset links. A rotation is
  two statements of a READ COMMITTED transaction (`Revoke` locks the old row,
  `Rotate` inserts the new one and commits), and a wipe is a DELETE that goes
  by the rows it saw when it began, waits for those that are locked and misses
  what was inserted since (`Wipe`, `EndWipe`). A sign-in deletes what it
  counted as too many when it was admitted, and inserts its row later. `wipes`
  and a token's `since` and `spared` are history: the wipes of before its
  sign-in, and those that its rows came too late for.
- `Membership`: invitations, staff and mechanics of several shops, and the
  administrator's two-statement upsert.
- `People` composes them: both write the account.

**Catalogue**: `Catalogue` (bulk import, contributions, reviews, vehicles,
fitments, requests for confirmation) and `StagingImport` (the import that is
limited by day and hour, its log, and the picture migration).

**Background**: `Cache` (Redis as a cache: hit, miss, deadline, late command,
invalidation, expiry, replica, a client given up for good; the rate limiters,
and the pages of the administrators, which ask the client themselves and
without a deadline); `Codes` (one-time
codes) and `Housekeeping` on top of it (queues, workers, timers, crashes and
starts, with BullMQ as an external component).

**Proofs**: `StoreProofs` (`Store` and `Exchanges`), `ProcurementProofs`,
`StockProofs`, `ReceivablesProofs`, `WorkshopProofs`, `PeopleProofs`,
`ServiceProofs` (numbering, background and catalogue), and `Sums`, what they
need to know of sums over finite sets. `ServiceProofs` extends `Sequence`,
`Housekeeping` and `StagingImport` at once, which is why the names of the last
two begin with their module's where another has them (`HousekeepingSpec`,
`StagingTypeOK`).

**TLC**: the `MC...` modules give the larger constants; each run has a `.cfg`.
`StagingImport`, `Cache` and `Housekeeping` need no values beyond their `.cfg`
and are checked directly. A definition whose name continues another's after an
underscore (`Shift`, `Shift_...`) is that definition with a plausible bug.

## What is abstracted

- GST and discounts are the constants `CartTotal` and `ReturnTotal`, functions
  of the cart. Money in `Store` is in units of which a rupee has `Rupee` (4 in
  the runs) and of which `Cent` (1) count as nothing, as 0.01 does in the code:
  an invoice's total is the cart's rounded to whole rupees (`InvoiceTotal`),
  while an exchange's credit is capped by the cart's before it is rounded. In
  `Stock` prices are whole paise, since an average is rounded.
- A line is a part and a quantity; the lines of an invoice are a function from
  parts to quantities (`Carts`).
- RETAIL, CREDIT, WORKSHOP and EXCHANGE invoices take the same branches and are
  the kind `SALE`.
- An invoice request either names a credit note and applies an amount, or
  neither. Custom items and the vehicle link are not modelled.
- Counter keys lose their month: one month of one shop.
- A SERIALIZABLE transaction commits only if what it read of the returned
  quantities is still so. PostgreSQL may abort more often; a `Rollback` or
  `Abandon` at any time covers that.
- In procurement a unit costs one rupee, one supplier stands for all, and the
  lines of a return name one movement, once or (`again`) twice; lines of
  different movements do not meet.
- In `Stock` movements are their signed sum by part, since that is what the
  nightly job and the screens compute of them; the rows of a bulk stock-in
  commute, and one row stands for them.
- In `Receivables` the sale on credit is in the past: invoices begin with
  status CREDIT, and their ledger rows start at zero. `outstanding` counts
  what happens after.
- In `JobCards` what nobody decides by is left out: timeline, notes, photos,
  commissions, messages, and totals, which are sums of the lines.
- In `Sessions` a token's age is `live`, `grace` (revoked for less than a
  minute), `stale` or `deleted`; one account is enough, since no handler
  touches the tokens of another.
- In `Cache` the answer of a query is the number of writes it has seen.
- In `Housekeeping` one job of each kind is looked at; a queue with several is
  several such jobs, which do not meet.

## Runs

| Run | Instance | Distinct states | Shows |
|---|---|---|---|
| `store_sales` | 2 requests, 2 parts, 2 invoices, 1 return | 798,480 | stock and numbering under sales, quotations, return invoices, returns and walk-in returns |
| `store_returns` | 2 requests, 1 part, 2 invoices, 2 notes, 2 returns | 2,275,031 | races on one invoice line and on one credit note, exchanges and their links, balances of notes, ledger and goods |
| `sequence` | 3 clients, 2 programs, 4 series of which INV and JOB are drawn outside transactions too, numbers to 2 | 273,414 | unique numbers, refinement of `GaplessSeries` by the other tax series, every transaction ends |
| `procurement_orders` | 2 requests, 2 parts, 2 orders, 1 edit | 485,941 | stock explained, never over-received |
| `procurement_returns` | 2 requests, 1 bill, 2 imports, 2 returns of one line or two | 8,036,450 | returns within imports, credit once, no lost resolution, ledger |
| `stockroom` | 2 requests (one the screen), 1 part, 1 order, 1 claim | 2,971,624 | types, stock explained, cost within prices, a claim's movements |
| `receivables` | 3 requests, 1 customer, 1 invoice of his and 1 walk-in's | 1,546,740 | PAID exactly when covered, the ledger a chain |
| `workshop` | 2 requests, 1 job, 1 part, 1 bay, 2 lines | 2,712,646 | completion and inspection before delivery, parts accounted for |
| `people` | 2 requests at once, 5 in all, 2 shops, 3 tokens | 1,849,171 | only what a wipe overlaps outlives it, active means approved |
| `catalogue` | 2 requests at once, 3 in all, 3 parts of which one has no number, 1 model, 2 vehicles | 1,291,934 | imports fit what they answer, the log is true, the migration ends |
| `cache` | 2 requests at once, any number in all, 1 write, 3 keys, 1 late command | 179,208 | whoever asks under a deadline is answered, stale values go |
| `housekeeping` | 2 requests at once, 3 outside events, e-mail and cleanup | 345,208 | codes are spent and bounded, mail ends, expired codes go |

Bounds. Two requests are enough for a race between a read and a write, and
between a check and the constraint behind it. Three are needed where a lock
queues: a third client in `sequence` allows a circle with a bystander that must
not starve, and in `receivables` an entry of the ledger between two payments.
Two parts allow a transaction that fails on its second line and carts that
overlap. In `store_returns` two invoices are a sale and the second leg of an
exchange, or two sales that race for a note. In `people` five requests are an
invitation, a registration, an approval and a race against it; `KeptSessions`
is 1 instead of 4, so that a third sign-in deletes a session. In `catalogue`
three requests are two racing imports and a review, a contribution or a vehicle
in between, and the part without a number is one that an import creates and
never finds again. In `cache` requests never end: a bound on their number would
make `FreshInTheEnd` hold as soon as they run out. In `workshop` two lines are
one of the mechanic's and one of the shop's, or two that compete for the one
unit in stock. In `stockroom` one of the two requests is the inventory screen's
(`Screens`) and the other an order's or a claim's, while sales and bulk
receipts, which are one step each, come at any time: what is read stale is then
changed by each kind of writer. `MaxInvoices`, `MaxReturns`, `MaxNotes`,
`MaxOrders`, `MaxBills`, `MaxSources`, `MaxVersion`, `MaxEdits`, `MaxSold`,
`MaxNumber`, `MaxStock`, `MaxMoved`, `MaxRestored`, `MaxClaims`, `MaxPaid`,
`MaxRows`, `MaxJobs`, `MaxLines`, `MaxRequests`, `MaxTokens`, `MaxVehicles`,
`MaxPerDay`, `MaxWrites`, `MaxLate` and `MaxEvents` stop what would grow for
ever; when they are reached and all requests are done nothing is left to do,
which is why the runs do not check for deadlock. (A circle of waiting
transactions is what `EveryTransactionEnds` is about.) The proofs assume none
of these bounds is small.

Symmetry is used for the requests (and in `people` for the shops) in runs
without liveness properties.

Fairness, where a run has a liveness property:

- `Sequence`: the event loop runs the next statement of every live request
  (weak fairness of `Commit`); PostgreSQL queues the waiters of a row, so that
  none is overtaken for ever (strong fairness of `Lock`); Prisma's `timeout`
  (30 s in `createInvoice`, 15 s in `runSerializable`) or the closed connection
  of a dead process ends a stalled transaction (`Expire`); and PostgreSQL
  examines every wait that lasts `deadlock_timeout` (`BreakDeadlock`). Nothing
  is assumed of requests arriving.
- `Cache`: timers fire (`GiveUpWaiting`), queries end (`Compute`), a client
  that was given up refuses what it is asked (`Reject`), keys expire
  (`Expire`), the replica receives what was written (`Replicate`). Nothing is
  asked of Redis: it need not reply, which is the point of the deadline. Where
  there is none (`Guarded`) a request does hang, and `EveryoneAnswered`
  promises it nothing.
- `StagingImport`: the loop of the migration goes on (`Migrating`), since each
  download, upload and statement ends in success or in failure.
- `Housekeeping`: a process that is down is started again (`Boot`, the
  hosting platform's restart), scheduling goes on to its end or its first error,
  the repeat of the cleanup fires, workers pick, work, settle and find stalled
  jobs, and the timers of a process without workers fire. Strong fairness of
  `CleanUp` says that the database does not refuse the deletion every night for
  ever. Nothing is assumed of crashes, which are bounded only as events are.

What some of the properties do not say, although their names might suggest it:

- `StockMatchesMovements` cannot see a lost race on the stock guard, nor a sale
  that is half done: a commit writes stock and movement together. It sees a
  branch that writes one of them only. `GoodsConserved` sees the lost race: a
  unit that is handed out twice is on the shelf less than no times.
- `GoodsConserved` counts three things as coming from nowhere, since they do:
  walk-in returns, return invoices, and returns against a document that sold
  nothing. What a customer of a sale holds is never less than nothing
  (`OneLinePerPart` in the theorem; the forms of the runs have it).
- `ReceivedWithinOrdered` is about what an order knows to have been received:
  an edit that raced with a receipt makes it forget, and count anew.
- `SupplierLedgerMatches` multiplies by how often a return was posted: that it
  is posted once is `CreditedOnce`.
- `StockExplained` excepts what the code does set apart: an edit without a
  version over a newer row, a row that lost its opening movement; and what an
  order holds is counted as it took it. What remains is the sign and amount
  of every kind of movement.
- `CostWithinPrices` does not notice an average with the wrong weights, which
  lies between the prices as well.
- `DeliveredPassedQC` remembers one inspection: a stale delivery over a later
  QC_REWORK satisfies it.
- `OnlyRacesOutliveWipes` names the rotations and sign-ins that a wipe
  overlapped, and promises that nothing else survives one.
- `FreshInTheEnd` rests on the expiry of every key: it would not notice an
  invalidation that deletes too little.
- `AcceptedIsSpent` says that an accepted code is spent, not that it was
  accepted once.

## Claims that do not hold

These were met while modelling. Each is stated by a definition of its own, or
by a property under other constants than the run's; no run lists them, and
each can be seen by giving TLC the change named here.

- One return that names an invoice line twice passes both checks and returns
  more than was sold: `salesReturns.js:174` sums the rows in the database, not
  the other lines of the request (`lib/serializable-tx.js:4` promises that
  concurrent returns cannot over-return). `ReturnedWithinSold` in `MCStore`
  with two forms of one line, or a form whose quantities exceed the cart.
- A return against an ESTIMATE adds stock that never left: `salesReturns.js:133`
  finds any invoice, although a quotation "must not touch stock"
  (`billing.js:418`). `OnlySalesComeBack` of `Store` with `"ESTIMATE"` in
  `InvoiceKinds`, as in `store_sales`.
- An exchange may redeem up to half a rupee more than its sale costs: the
  credit is capped by the new goods' total before it is rounded
  (`exchanges.js:84`), the invoice's total is rounded (`billing.js:215`).
  `ExchangesLinkTheirLegs` with `InvoiceTotal` for `CartTotal` in `LegsMatch`.
- One return to a supplier that names a movement twice passes the check "left
  returnable" (`purchaseReturns.js:160`) line by line and returns more than was
  imported: the sum is over the rows in the database, and no row of the
  request is there yet. `NeverOverReturned` of `Procurement`.
- The nightly job reports drift after any return: `reconciliation.worker.js:33`
  weighs RETURN_OUT with the wrong sign and does not know SALES_RETURN_IN,
  though it is to find "drift" (line 22). `NoDrift` of `Store`.
- A workshop invoice draws a number of the invoice series outside the
  transaction that fails: `mechanic/jobs.js:772`, whose INSERT names columns
  (`total`, `payment_status`) that `invoices` lacks. `billing.js:264` asks for
  a continuous series. `EveryTaxSeriesGapless` of `Sequence`; the run has
  `"INV"` in `OutsideSeries`, so its `TaxSeriesGapless` is about the others.
- The status machine of orders (`purchaseOrders.js:29`) is bypassed by stale
  reads (464, 541). `OnlyLegalTransitions` of `Procurement`.
- A bill is importable until its import has ended, so two requests import it
  twice, against "This bill has already been imported" (`purchaseBills.js:134`).
  `ImportedOnce` of `Procurement`.
- A bill whose only item fails in its COMMIT is marked IMPORTED, since the item
  was pushed to `results` before it (`purchaseBills.js:222`, 230-234): there is
  nothing in stock and no second attempt, and the client is not told "clearly"
  (line 236). `ImportedHasGoods` of `Procurement`.
- Cancelling a marketplace order "restore[s] stock ... (stock was decremented
  at order placement)" (`marketplace.js:728`), also when it is cancelled a
  second time or before all of it was decremented. `RestoredAsTaken` of `Stock`.
- "Mark invoice PAID if full amount covered" (`billing.js:795`) compares what
  was paid later with the whole total, so an invoice that was sold partly on
  credit is never PAID by settling the credit. `SettledIsPaid` of
  `Receivables` with an invoice whose credit is below its total.
- "Restore stock for inventory-linked parts" (`mechanic/jobs.js:599`) restores
  stock also for lines that the shop added without taking any.
  `RestoredWasTaken` of `Workshop`.
- "3 imports per UTC day" (`admin.js`): the log is read before an import and
  written after it, so imports that overlap pass together.
  `WithinDailyLimit` of `StagingImport` with `MaxPerDay = 1`.
- "Revoke all refresh tokens (force re-login on all devices)"
  (`password.js:164`) misses the token of a rotation that inserts after the
  DELETE began and commits before it ends, and of a sign-in that was admitted
  before. `NoSessionOutlivesWipe` of `Sessions`.
- The answer of a bulk import counts "fitments" and "errors", but a row without
  an OEM number is created (`admin.js:522`) and then skipped without either
  (700), and of more than 20 errors the rest are left out (732; the model
  keeps all errors). `EveryRowFitted` of `Catalogue`.
- "Every command call MUST race against a manual deadline" (`cache.js:53`), but
  `admin.js` (38-52, 853, 1012, 1029, 1089) awaits the client's commands, so
  these pages hang on a silent socket. `NobodyHangs` of `Cache`.

Other behaviour that the models had to be faithful to, and that a reader of
the code may find surprising: handlers that pass the id of the path to Prisma
as a string always fail (addresses and garage in `customer.js`, edits in
`fitments.js` and `catalog.js`, `DELETE /me/sessions/:id`); `link-phone.js`
reads `req.userId`, which no middleware sets; the creation of a quotation joins
on `mp.part_id`, which `master_parts` lacks; the counter of failed codes never
rises, because `verifyOtp` returns no record for a wrong code; the mark that
spends a phone code is allowed to fail (`auth/otp.js` 113-118);
`inventory.js:356` invalidates a prefix that no key begins with;
`marketplace.js:114` leaves the page out of its cache key; the rate limiters
"already fail open on store errors" (`cache.js:71`) only if they are told to,
and they are not: the error answers the request; `gracefulShutdown`
refers to `workers`, which is not in its scope (`index.js:748`); purchase-order
and job numbers are counted per shop but unique across shops.

## Proofs

All theorems are about the specifications that TLC runs, for every value of
the constants that meets the named assumptions. Each part of a proof module
first states its inductive invariant, shows that it holds initially and is
kept by every action, with one lemma per action (or per group of actions that
touch the same tables), and concludes. Every safety property of a run, whether
invariant, action property or refinement, is the conclusion of a theorem.

- `StoreProofs`. `TypeOK` is inductive. `StockMatchesMovements` and
  `NoteBalanceCoherent` are inductive relative to it. `SeriesContinuous` needs
  that a counter is the number of documents of its series.
  `ReturnedWithinSold` needs what a pending return has seen, and the premise
  `OneLinePerPart`: without it the theorem is false (see above).
  `NotesOnlySpent` is an action property. `LedgerMatchesDocuments`,
  `NoteBalanceExplained` and `UnitsAccounted` relate a balance to sums over
  all invoices, notes and returns: they are inductive (the second with what
  note an invoice may name, `NotesNamed`), since a step appends a document or
  changes one row, and the lemmas of `Sums` say what that does to a sum.
  `GoodsConserved` is `UnitsAccounted` with `TypeOK` and `ReturnedWithinSold`,
  which is why it has the latter's premise.
  For `Exchanges`, the lemma `ExchangesAreStore` carries `Store`'s invariants
  over: every step of an exchange is one of `Store` or none. `ExchangesLinked`
  needs `ExchangeInv`: a chain between its return and its link names the note
  its own return has written and the sale its own request has made (`Fits`), no
  two chains and no recorded exchange share either (`OwnNotes`,
  `OwnInvoices`), and what a recorded exchange says stays true of documents
  that others go on changing (`Linked`). Without `Fits` for chains that are
  still under way, nothing would be known of the link that is written at last.
- `ServiceProofs`, numbering. `NumberingInv` says who may hold what: a number
  drawn in a transaction is the committed value plus one and its row is
  locked; a number drawn outside is at most the committed value and on no
  document. From it follow `NumbersUnique` and that for the tax series outside
  `OutsideSeries` every step is a step of `GaplessSeries` or a stutter; nothing
  is assumed of what `OutsideSeries` is.
- `ServiceProofs`, background. `LiveCodesBounded` is not inductive: a request
  that has spent the older codes is about to store one. `LiveOrComing` counts
  each request's code whether it is stored or coming, and is bounded by the
  number of requests. `AcceptedIsSpent` needs that a request marks a code that
  was stored (`CodesOK`), `CompletedWasDone` that a worker which is about to
  report a success has done the work (`ReportsAreTrue`): workers die between
  the two, and what a job has done is never undone.
- `ServiceProofs`, catalogue. `FittedAsAnswered` needs `PromisesKept`: of the
  parts with a number that an import under way owes a vehicle or an error,
  those it has dealt with without one are fitted, and remain so whoever adds
  vehicles or fitments meanwhile. `LogNeverOverstates` needs `LoggedOrComing`:
  the log and what imports have inserted and not yet logged do not exceed the
  parts that were imported, since each insert answers for the parts it was the
  first to write.
- `ProcurementProofs`. `TypeOK` is inductive; stock and received quantities are
  inductive relative to it; `ReturnedWithinImported` needs `RequestsFit` (as
  long as the sum of earlier returns is the one seen, each line still fits;
  what is named again is summed beside it), `NoLostResolution` needs
  `VersionsTell` (a version number stands for the resolution it was read with).
  `ImportedBroughtGoods` needs `ImportersBrought`: a request that will mark its
  bill has already written a movement with the bill's number, and movements are
  never deleted, or has lost a commit of it. `SupplierLedgerMatches` is
  inductive, with `Sums` for the one return whose posting changes.
- `StockProofs`. `TypeOK` is not inductive alone: what an order, a claim or a
  request names must still have a row (`Present`; no handler deletes one).
  `ClaimMovesStockOnce` needs `Decided`: a request whose version is still the
  claim's asks for a transition which the claim's status allows now, so a
  second request for the same step is refused by the version.
  `CostWithinPrices` needs `Priced` (the stale cost a purchase averages with
  was once a price between prices) and the lemmas on quotients: a rounded
  weighted mean of two numbers lies between them, also when the stock it was
  weighted with has changed or is nothing. `StockExplained` needs `Explained`:
  between a row's creation and its opening movement `Drift` is the opening
  quantity of one request, of which there is one for each part.
- `ReceivablesProofs`. `PaidWhenCovered` is about an aggregate that no lock on
  the invoice protects. It is inductive with `BalancesCurrent` (the holder of a
  party's row carries the balance that its increment gave: nobody changes it
  meanwhile), `SeenIsPaid` (a request that read PAID is right, since nothing
  takes it back) and `SumsCurrent` (the sum of a payment that holds its
  customer's row is still the sum when it commits).
- `WorkshopProofs`. Stale updates may put a card back to almost any status, so
  the invariant speaks of the requests as well as of the cards: `Consistent`
  (what the status of a card says of its completion and inspection) and
  `Backed` (a request that will write QC_PASSED, DELIVERED or the like was
  begun from a card whose completion and inspection, which are never taken
  back, already justify it). `PartsAccounted` sums over the set of lines and
  is inductive once that set is known to be finite (`PartsInv`).
- `PeopleProofs`. `OnlyRacesOutliveWipes` and `ActiveMeansApproved` need to
  know what stays while a request is under way. `AtWork` is about requests
  inside a statement: the row that a rotation revoked is there until it
  commits, since whoever would delete it waits for its lock, and for every
  token that is left a wipe under way either goes by its row or is one that
  the row came too late for. `RequestOK` is about requests between two
  statements (a request names a token that was issued and remembers no account
  that is not there); `TokensOK`, `MechanicOK` (an active row is approved, and
  no row speaks of an account that is not there) and `ShopsOK` about the
  tables.
- `Sums`. The models sum with `SumFunction` and `SumFunctionOnSet` of the
  community modules, which are folds. The library's induction theorems take
  an operator, which no prover here can instantiate; the same induction is
  first-order when a predicate is given by the set that satisfies it, and is
  derived from the natural numbers being well founded (`NaturalInduction`,
  `FiniteInduction`). The fold is then shown to be independent of the order in
  which elements are picked (`SummationsAgree`), and from that how a sum
  changes when a table gains a row or one of its rows is written
  (`SumRowAppended`, `SumRowUpdated`).

Assumptions. The constants' assumptions only say of which kind they are
(finite sets of requests and parts, totals that are natural numbers) and what
the code computes of them; `ExchangesAssumption` says that EXCHANGE is a refund
mode and that "no chain" is not a chain. TLC evaluates each in a run.

Only model-checked: the six liveness properties (`EveryTransactionEnds`,
`MailEnds`, `ExpiredGo`, `MigrationEnds`, `EveryoneAnswered`,
`FreshInTheEnd`), which are beyond the prover. `Cache` has no other property.

## Not modelled

- Search, listings, reports, PDFs, message texts, uploads and the wrappers of
  providers: they change nothing, or only what nobody reads back.
- Rows that one user writes and nobody else reads: addresses, garages, shop
  profiles, reviews, roles, join codes, notes, photos, commissions,
  notifications, feedback, push tokens.
- Permissions and rate limits in front of the handlers are taken as granted
  (the store of the limiters is in `Cache`).
- The GSTR-1 job writes one audit row; a GST period's lock is read by no
  handler of billing.
- Purchase order and job card numbers across shops; the invoice of a workshop
  job beyond its number; quotations, which can never be created.
- Circuit breakers and the scraper, a library around calls and code that is
  commented out.

## Plan

1. The types of `Cache`, and the safety part of its promises: a value that is
   served was once the answer of the query.
2. Sharper forms of what is proved: by how much two overlapping imports exceed
   `MaxPerDay`, and by how much racing imports of a bill exceed its items.
3. Lemmas shared by several proof modules (a request's record is the only one
   that changes, a row's update leaves the others) in a module of their own.
