\* Two requests at once, five in all, about one account, its sessions and its work at two shops.
SPECIFICATION Spec
CONSTANTS
    c1 = c1
    c2 = c2
    s1 = s1
    s2 = s2
    Clients = {c1, c2}
    Shops = {s1, s2}
    NoShop = NoShop
    OwnShop = OwnShop
    KeptSessions = 1
    MaxTokens = 3
    MaxRequests = 5
SYMMETRY Symmetry
CHECK_DEADLOCK FALSE
INVARIANTS
    OnlyRacesOutliveWipes
    ActiveMeansApproved
