SPECIFICATION MCSpec
CONSTANTS
    m1 = m1
    m2 = m2
    m3 = m3
    x = x
    y = y
    Flows = {m1, m2, m3}
    Nodes = {x, y}
    Shapes <- Cases
    Mergers = {d1, d2}
    MaxBuffer = 2
    BatchSize = 2
    DedupEvery = 1
    Faults = {"query", "answer", "channel", "crash", "stop"}
    MaxFaults = 2
INVARIANTS
    TypeOK
    MergeKeepsCounts
    CopiesHaveACause
    NothingVanishes
    KnownIsSaved
PROPERTY
    BufferDrains
CHECK_DEADLOCK FALSE
