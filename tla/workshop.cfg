\* Two requests at once on one job card: assignments, status changes, inspection,
\* delivery, lines with stock, part requests and a service bay.
SPECIFICATION Spec
CONSTANTS
    c1 = c1
    c2 = c2
    p1 = p1
    b1 = b1
    None = None
    Clients = {c1, c2}
    Parts = {p1}
    Bays = {b1}
    OpeningQty = 1
    MaxJobs = 1
    Qtys = {1}
    MaxLines = 2
    MaxStock = 2
    Verdicts = {"APPROVED"}
    MaxRequests = 1
SYMMETRY ClientSymmetry
CHECK_DEADLOCK FALSE
INVARIANTS
    CompletedBeforeQC
    DeliveredPassedQC
    PartsAccounted
