SPECIFICATION FairSpec

CONSTANTS
    Docs = {d1, d2}
    Workers = {w1, w2}
    Procs = {w1, w2}
    ProcOf <- MCProcOf
    BatchSize = 2
    Keys <- MCKeys
    VariantOf <- MCVariantOf
    Sourced <- MCPage
    Compiled <- MCCompiled
    Provisioned = TRUE
    MaxParses = 1
    MaxFaults = 1

INVARIANTS
    TypeOK
    RowRecoverable
    FirstMergeKept
    
PROPERTIES
    Drains
    ImplementsPromise
    RowsOutliveOthers
