SPECIFICATION MCFairSpec
CONSTANTS
    o1 = o1
    o2 = o2
    n1 = n1
    n2 = n2
    a1 = a1
    w1 = w1
    w2 = w2
    Analyses = {a1}
    Namespaces = {n1, n2}
    Objects = {o1, o2}
    NamespaceOf <- Places2
    Scope <- BothNamespaces
    CallThreshold = 20
    RemovalMin = 0
    MaxPerCycle = 1
    Workers = {w1, w2}
    EnabledTypes <- AllTypes
    Faults = {"fetch", "read", "row", "publish", "election", "crash"}
    MaxFaults = 1
    MaxChanges = 1
    MaxStarts = 2
INVARIANT TypeOK
PROPERTIES
    RowsCatchUp
    RemovalsHaveEvidence
    NewsIsNew
CHECK_DEADLOCK FALSE
