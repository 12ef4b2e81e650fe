SPECIFICATION FairSpec
CONSTANTS
    Row = {r1, r2, r3, r4}
    CoreCounts = {1, 2, 3}
    ChunkSize = 2
INVARIANTS
    TypeOK
    ExactWhenOrdered
PROPERTY ScanEnds
