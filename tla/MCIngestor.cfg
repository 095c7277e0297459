SPECIFICATION FairSpec

CONSTANTS
    Workers = {w1, w2}
    MaxMsgs = 2
    MaxStops = 1
    MaxDeliver = 2
    MaxFaults = 2

INVARIANTS
    TypeOK
    OneWorkerPerTask
    CreatedIsQueued

PROPERTIES
    ImplementsTask
    FirstRunSettles

CHECK_DEADLOCK FALSE
