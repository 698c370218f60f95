\* Two requests at once that extract and import a bill, return what it brought, resolve
\* the returns and spend the supplier's credit, while a unit is sold.
SPECIFICATION Spec
CONSTANTS
    p1 = p1
    p2 = p2
    c1 = c1
    c2 = c2
    Parts <- OnePart
    Clients = {c1, c2}
    Carts <- OneCarts
    MaxSold = 1
    Receipts <- OneReceipts
    MaxOrders = 0
    MaxEdits = 0
    InvoiceNumbers = {"A-17"}
    MaxBills = 1
    MaxSources = 2
    ReturnForms <- OneOrTwoLines
    CreditAmounts = {1}
    MaxReturns = 2
    MaxVersion = 2
SYMMETRY ClientSymmetry
CHECK_DEADLOCK FALSE
INVARIANTS
    ReturnedWithinImported
    ImportedBroughtGoods
    CreditedOnce
    SupplierLedgerMatches
PROPERTIES
    NoLostResolution
