\* Two requests at once over two parts: every kind of invoice, on credit or not,
\* and a return of two lines, with an invoice or walk-in.
SPECIFICATION Spec
CONSTANTS
    p1 = p1
    p2 = p2
    r1 = r1
    r2 = r2
    Parts <- TwoParts
    Parties = {asha}
    NoParty = NoParty
    Reqs = {r1, r2}
    Carts <- TwoPartsCarts
    CartTotal <- TwoPartsCartTotal
    Rupee = 4
    Cent = 1
    Opening <- TwoPartsOpening
    MaxInvoices = 2
    CreditAmounts = {0, 8}
    AppliedAmounts = {0}
    InvoiceKinds = {"SALE", "ESTIMATE", "RETURN"}
    MaxNotes = 1
    ReturnForms <- TwoPartsForms
    ReturnTotal <- TwoPartsReturnTotal
    WalkInForms <- TwoPartsForms
    RefundModes = {"CASH", "STORE_CREDIT"}
    MaxReturns = 1
SYMMETRY ReqSymmetry
CHECK_DEADLOCK FALSE
INVARIANTS
    StockMatchesMovements
    SeriesContinuous
