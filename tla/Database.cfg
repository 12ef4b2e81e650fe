SPECIFICATION FairSpec
CONSTANTS
    t1 = t1
    t2 = t2
    k = k
    v = v
    Fails = Fails
    Panics = Panics
    NotCached = NotCached
    Table = {t1, t2}
    Column = {k, v}
    Value = {0, 1}
    Id = {1, 2}
    MaxFaults = 2
    NewRow <- MCNewRow
    Assignments <- MCAssignments
    Filter <- MCFilter
    SmallBatch = 2
    MaxBatch = 2
    MaxStarts = 1
INVARIANTS
    TypeOK
    CopiesAgree
    NothingForgotten
    NothingSurvivesDrop
    CacheTruthful
PROPERTIES
    UpdateAsDocumented
    PendingReachDisk
CHECK_DEADLOCK FALSE
