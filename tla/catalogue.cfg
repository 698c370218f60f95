\* Two requests at once, three in all, about two parts with OEM numbers and one without,
\* that may fit one model of car.
SPECIFICATION StagingSpec
CONSTANTS
    Users = {c1, c2}
    Parts = {p1, p2, p3}
    Unnumbered = {p3}
    Models = {v1}
    NoModel = NoModel
    MaxVehicles = 2
    MaxRequests = 3
    Staged = {p1}
    MaxPerDay = 2
    PictureBatch = 1
CHECK_DEADLOCK FALSE
INVARIANTS
    FittedAsAnswered
    LogNeverOverstates
PROPERTIES
    MigrationEnds
