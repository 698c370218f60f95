\* Three requests at once pay one customer's invoice and a walk-in's, enter ledger rows and
\* apply supplier credit.
SPECIFICATION Spec
CONSTANTS
    i1 = i1
    i2 = i2
    a1 = a1
    c1 = c1
    c2 = c2
    c3 = c3
    Parties = {a1}
    NoParty = NoParty
    Invoices = {i1, i2}
    Sold <- WhollyOnCredit
    Clients = {c1, c2, c3}
    Amounts = {1, 2}
    MaxPaid = 3
    MaxRows = 2
SYMMETRY ClientSymmetry
CHECK_DEADLOCK FALSE
INVARIANTS
    PaidWhenCovered
    LedgerIsAChain
