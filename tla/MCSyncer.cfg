SPECIFICATION Spec
CONSTANTS
    Connectors = {c1}
    Links = {l1}
    ConnOf <- MCConnOf
    Docs = {d1}
    Workers = {w1, w2}
    Exact = {c1}
    PruneOn = TRUE
    QueueSize = 1
    Slots <- MCSlots
    MaxClock = 2
    MaxFaults = 1
CONSTRAINT MCBound
SYMMETRY MCSymmetry
INVARIANTS TypeOK ConnectorSerialized NoUpdateMissed
PROPERTIES PruneKeepsLive
