\* Sales and returns that lock the same rows in different orders, and invoices
\* of the workshop and job cards numbered outside any transaction.
SPECIFICATION Spec
CONSTANTS
    c1 = c1
    c2 = c2
    c3 = c3
    Clients = {c1, c2, c3}
    NoClient = NoClient
    Series <- AllSeries
    OtherRows <- StoreRows
    Programs <- StorePrograms
    OutsideSeries = {"INV", "JOB"}
    TaxSeries <- TaxOnly
    MaxNumber = 2
CHECK_DEADLOCK FALSE
INVARIANTS
    NumbersUnique
PROPERTIES
    TaxSeriesGapless
    EveryTransactionEnds
