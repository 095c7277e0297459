SPECIFICATION FairSpec

CONSTANTS
    Docs = {d1}
    Workers = {w1, w2}
    Procs = {w1, w2}
    ProcOf <- MCProcOf
    BatchSize = 2
    Keys <- MCKeys
    VariantOf <- MCVariantOf
    Sourced <- MCPage
    Compiled <- MCCompiled
    Provisioned = FALSE
    MaxParses = 1
    MaxFaults = 0

INVARIANTS
    DeletionReachesConsumer
