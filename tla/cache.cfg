\* Two requests at once, without end, a write, and a SET left on the wire.  A flag is
\* cached as what is browsed is, and never invalidated, as the dashboard never is.
SPECIFICATION Spec
CONSTANTS
    Clients = {c1, c2}
    Keys = {"browse", "dashboard", "admin"}
    MaxWrites = 1
    MaxLate = 1
CHECK_DEADLOCK FALSE
PROPERTIES
    EveryoneAnswered
    FreshInTheEnd
