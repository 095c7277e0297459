SPECIFICATION FairSpec
CONSTANTS
    Connectors = {c1}
    Links = {l1}
    ConnOf <- MCConnOf
    Docs = {d1}
    Workers = {w1}
    Exact = {}
    PruneOn = TRUE
    QueueSize = 1
    Slots <- MCSlots
    MaxClock = 1
    MaxFaults = 0
PROPERTIES NextTaskRuns
