SPECIFICATION FairSpec

CONSTANTS
    Workers = {w1, w2}
    MaxMsgs = 2
    MaxStops = 1
    MaxDeliver = 16
    MaxFaults = 0

PROPERTIES
    EveryRunSettles

CHECK_DEADLOCK FALSE
