\* Two requests at once about codes, an e-mail, and a process that may end: three in all.
SPECIFICATION HousekeepingSpec
CONSTANTS
    Requests = {r1, r2}
    MaxEvents = 3
    JobKinds = {"email", "cleanup"}
CHECK_DEADLOCK FALSE
INVARIANTS
    CompletedWasDone
    LiveCodesBounded
    AcceptedIsSpent
PROPERTIES
    MailEnds
    ExpiredGo
