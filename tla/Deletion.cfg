SPECIFICATION MCSpec
CONSTANTS
    a4 = a4
    a42 = a42
    Analyses = {a4, a42}
    Within <- DigitsWithin
    Layered = {a42}
    Requests = {r1, r2}
    Faults = {"redis", "check", "stop", "clickhouse", "neo4j", "row", "leak"}
    MaxFaults = 1
    MaxMessages = 2
SYMMETRY Symmetry
INVARIANTS
    TypeOK
    LeftoversHaveADoor
    CollectorsAreKnown
PROPERTY
    SweepSparesL7
CHECK_DEADLOCK FALSE
