\* Two requests at once over two orders of two parts, and a sale of what arrived.
SPECIFICATION Spec
CONSTANTS
    p1 = p1
    p2 = p2
    c1 = c1
    c2 = c2
    Parts <- TwoParts
    Clients = {c1, c2}
    Carts <- TwoCarts
    MaxSold = 1
    Receipts <- TwoReceipts
    MaxOrders = 2
    MaxEdits = 1
    InvoiceNumbers = {"A-17"}
    MaxBills = 0
    MaxSources = 0
    ReturnForms <- OneLine
    CreditAmounts = {1}
    MaxReturns = 0
    MaxVersion = 0
SYMMETRY ClientSymmetry
CHECK_DEADLOCK FALSE
INVARIANTS
    StockMatchesMovements
    ReceivedWithinOrdered
