SPECIFICATION MCSpec
CONSTANTS
    s1 = s1
    s2 = s2
    g1 = g1
    g2 = g2
    Sessions = {s1, s2}
    Gadgets = {g1, g2}
    Requests <- Cases
    Stops = {h1, h2}
    Threads = 1
    MaxRetries = 1
    MaxTries = 2
    NoOne = NoOne
    Faults = {"connect", "launch", "fail", "end", "odd_line", "broker", "kill", "deadline"}
    MaxLines = 2
    MaxFaults = 2
INVARIANTS
    TypeOK
    NothingUnstoppable
    RunningIsHonest
PROPERTY
    EverythingMoves
CHECK_DEADLOCK FALSE
