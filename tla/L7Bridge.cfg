SPECIFICATION MCSpec
CONSTANTS
    Sessions = {s1, s2}
    NoSession = NoSession
    Capacity = 2
    PageSize = 2
    MaxEvents = 3
    MaxStarts = 2
    Faults = {"collector", "shutdown", "redis", "resend", "raise"}
    MaxFaults = 2
INVARIANTS
    TypeOK
    NothingSkipped
    Stoppable
    CopiesBounded
PROPERTIES
    CatchesUp
    StopEnds
CHECK_DEADLOCK FALSE
