SPECIFICATION FairSpec
CONSTANTS
    Clusters = {c1}
    Requests = {r1}
    Workers = {w1, w2}
    NoCaller = NoCaller
    Level = "both"
    Scheduled = TRUE
    Faults = {"rejected_start", "lost_start", "failed_stop", "l7_failure", "client_timeout", "backend_crash", "orchestrator_crash", "ingestion_crash", "l7_end"}
    MaxRuns = 2
    MaxFaults = 1
INVARIANTS
    TypeOK
    SessionOwnership
PROPERTIES
    LeaksHaveADoor
    RequestsReturn
    AutoStop
CHECK_DEADLOCK FALSE
