SPECIFICATION MCSpec
CONSTANTS
    Consumers = {c1, c2}
    Messages = 2
    Kinds = {"event", "deleted", "garbage", "odd", "poison"}
    BatchSize = 2
    Prefetch = 2
    Faults = {"drop", "write", "unknown", "stop", "crash"}
    MaxFaults = 2
    MaxTroubles = 2
    MaxTag = 6
INVARIANTS
    TypeOK
    NothingLost
    CopiesBounded
PROPERTY
    QueueDrains
CHECK_DEADLOCK FALSE
