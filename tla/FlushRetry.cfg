SPECIFICATION FairSpec
CONSTANTS
    r1 = r1
    r2 = r2
    r3 = r3
    r4 = r4
    Row = {r1, r2, r3}
    Poison = {r3}
    SmallBatch = 2
    SizeLimit = 3
    Offsets <- MCOffsets
    Ticks = {1}
    SnapTicks = {0}
    Faults = {"parquet", "manifest", "list", "listTorn", "read", "crash"}
    MaxFaults = 2
    MaxSnapshots = 1
INVARIANT NoRowTwice
PROPERTY EventuallyFlushed
