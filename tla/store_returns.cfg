\* Two requests at once over one part: sales, returns that race on one invoice, credit
\* notes that race to be spent on sales, and exchanges, each a return and then a sale.
SPECIFICATION ExchangeSpec
CONSTANTS
    p1 = p1
    p2 = p2
    r1 = r1
    r2 = r2
    Parts <- OnePart
    Parties = {asha}
    NoParty = NoParty
    Reqs = {r1, r2}
    Carts <- OneCarts
    CartTotal <- OneCartTotal
    Rupee = 4
    Cent = 1
    Opening <- OneOpening
    MaxInvoices = 2
    CreditAmounts = {0}
    AppliedAmounts = {0, 4, 5, 10}
    InvoiceKinds = {"SALE"}
    MaxNotes = 2
    ReturnForms <- PlainForms
    ReturnTotal <- PlainReturnTotal
    WalkInForms <- OneBack
    RefundModes = {"CASH", "STORE_CREDIT", "EXCHANGE"}
    NoChain = NoChain
    MaxReturns = 2
SYMMETRY ReqSymmetry
CHECK_DEADLOCK FALSE
INVARIANTS
    ReturnedWithinSold
    NoteBalanceCoherent
    LedgerMatchesDocuments
    NoteBalanceExplained
    GoodsConserved
    ExchangesLinkTheirLegs
PROPERTIES
    NotesOnlySpent
