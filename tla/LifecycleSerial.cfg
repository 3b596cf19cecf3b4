SPECIFICATION SerialSpec
CONSTANTS
    Clusters = {c1, c2}
    Requests = {r1}
    Workers = {w1}
    NoCaller = NoCaller
    Level = "both"
    Scheduled = FALSE
    Faults = {"rejected_start", "ingestion_crash", "l7_end"}
    MaxRuns = 3
    MaxFaults = 2
INVARIANTS
    AtRestAgreement
PROPERTIES
    ImplementsContract
    RunsAreFinal
CHECK_DEADLOCK FALSE
