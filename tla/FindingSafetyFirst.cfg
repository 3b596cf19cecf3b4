SPECIFICATION Spec
CONSTANTS
    Clusters = {c1}
    Requests = {r1, r2}
    Workers = {w1, w2}
    NoCaller = NoCaller
    Level = "l4"
    Scheduled = FALSE
    Faults = {}
    MaxRuns = 1
    MaxFaults = 0
INVARIANT
    SafetyFirst
CHECK_DEADLOCK FALSE
