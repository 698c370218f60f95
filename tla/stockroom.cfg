\* Two requests at once over one row: the screen edits, buys and adjusts it, an order takes
\* from it, a unit is sold and claimed under warranty.
SPECIFICATION Spec
CONSTANTS
    p1 = p1
    c1 = c1
    c2 = c2
    Parts = {p1}
    Clients = {c1, c2}
    Stocked = {}
    OpeningQty = 0
    Prices = {2, 3}
    MaxStock = 2
    MaxMoved = 2
    MaxVersion = 1
    Screens = {c1}
    Amounts = {0, 1}
    AdjustQtys <- EitherSign
    AdjustTypes = {"AUDIT", "DAMAGE"}
    Baskets <- OneUnit
    OrderSteps = {"CONFIRMED"}
    MaxOrders = 1
    MaxRestored = 1
    ClaimQtys = {1}
    MaxClaims = 1
CHECK_DEADLOCK FALSE
INVARIANTS
    TypeOK
    CostWithinPrices
    ClaimMovesStockOnce
    StockExplained
