SPECIFICATION FairSpec
CONSTANTS
    NumRows = 9
    RowsPerFile = 2
    Parallelism = 3
    MaxFaults = 2
INVARIANTS
    TypeOK
    OkMeansAllRows
    NothingRunsAfter
    BoundedWriters
PROPERTY
    Returns
CHECK_DEADLOCK FALSE
