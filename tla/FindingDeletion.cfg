SPECIFICATION Spec
CONSTANTS
    a4 = a4
    a42 = a42
    Analyses = {a4, a42}
    Within <- DigitsWithin
    Layered = {a42}
    Requests = {r1}
    Faults = {}
    MaxFaults = 0
    MaxMessages = 1
INVARIANT
    AllDataGone
CHECK_DEADLOCK FALSE
